---- MODULE Spec2Model ----
(***************************************************************************)
(* Model of the CODEOWNERS-aware approval predictor                        *)
(* (src/codeowners_ml_system.py) and of its training entry point           *)
(* (src/codeowners_ml_train.py).                                           *)
(*                                                                         *)
(* Strings are sequences of one-character strings, so that the string      *)
(* operations of the source (replace, join, sorted, re.match) are computed *)
(* and not assumed.                                                        *)
(***************************************************************************)
EXTENDS Integers, Sequences, FiniteSets, TLC

VARIABLES
    \* ---- _matches_pattern applied to one (pattern, path) pair
    m_pattern, m_path, m_done, m_result,
    \* ---- match_files_to_groups applied to one (files, rules) pair
    g_rules, g_files, g_done, g_groups,
    \* ---- the persisted files
    ledgerFile,     \* python_training_log.json
    modelFile,      \* codeowners_ml_model.pkl
    prLogFile,      \* training_pr_log.json
    \* ---- the running process
    predictor,      \* the CodeownersMLPredictor instance (alive: FALSE when none)
    pc,             \* "idle", "collect", "collected", "returned"
    entry,          \* the caller of train: "main" or "script"
    pr_limit, page, training_data, consecutive_skipped_pages,
    fetch_failed,   \* a page fetch of this run answered non-200
    read_failed,    \* the ledger read of this run raised
    log_written,    \* this run wrote the ledger
    summary,        \* what train returned
    runs,           \* calls of train so far; the clock of training_date
    prev,           \* how the previous call of train ended
    at_call,        \* the fitted fields and the ledger file when train was called
    pr_result,      \* what predict_approvers returned
    pr_call,        \* the arguments of that call and the clock readings
    pr_loaded,      \* what predict_approvers returned on a predictor loaded
                    \* from the model file, for the same arguments
    last_op,
    p_content,      \* parse_codeowners: the text of the CODEOWNERS file
    p_done,
    p_rules,        \* parse_codeowners: the rules returned
    d_input,        \* the data preparation: the owners of a rule and a history
    d_done,
    d_prepared,     \* the samples, members and datasets prepared from it
    listing         \* the number of closed pull requests upstream

matchVars == <<m_pattern, m_path, m_done, m_result>>
groupVars == <<g_rules, g_files, g_done, g_groups>>
fileVars == <<ledgerFile, modelFile, prLogFile>>
runVars == <<entry, pr_limit, page, training_data, consecutive_skipped_pages,
             fetch_failed, read_failed, log_written>>
trainVars == <<fileVars, predictor, pc, runVars, summary, runs, prev, at_call,
               pr_result, pr_call, pr_loaded, last_op>>
parseVars == <<p_content, p_done, p_rules>>
prepVars == <<d_input, d_done, d_prepared>>
vars == <<matchVars, groupVars, trainVars, parseVars, prepVars, listing>>

(***************************************************************************)
(* Strings                                                                 *)
(***************************************************************************)

\* Code points of the characters the model uses (Python compares strings by
\* code point).
Ord(c) ==
    CASE c = "*" -> 42
      [] c = "." -> 46
      [] c = "/" -> 47
      [] c = "@" -> 64
      [] c = "_" -> 95
      [] c = "a" -> 97
      [] c = "b" -> 98
      [] c = "c" -> 99
      [] c = "d" -> 100
      [] c = "e" -> 101
      [] c = "h" -> 104
      [] c = "m" -> 109
      [] c = "o" -> 111
      [] c = "p" -> 112
      [] c = "r" -> 114
      [] c = "s" -> 115
      [] c = "t" -> 116
      [] c = "x" -> 120
      [] c = "y" -> 121
      [] OTHER -> 0

\* s < t for Python strings: lexicographic by code point, a proper prefix first.
RECURSIVE StrLess(_, _)
StrLess(s, t) ==
    IF t = <<>> THEN FALSE
    ELSE IF s = <<>> THEN TRUE
    ELSE IF Ord(Head(s)) < Ord(Head(t)) THEN TRUE
    ELSE IF Ord(Head(s)) > Ord(Head(t)) THEN FALSE
    ELSE StrLess(Tail(s), Tail(t))

\* Insert string x into the ascending list xs, after the elements not above it.
RECURSIVE InsertSorted(_, _)
InsertSorted(x, xs) ==
    IF xs = <<>> THEN <<x>>
    ELSE IF StrLess(x, Head(xs)) THEN <<x>> \o xs
    ELSE <<Head(xs)>> \o InsertSorted(x, Tail(xs))

\* sorted(list of strings): ascending, duplicates kept.
RECURSIVE sorted(_)
sorted(xs) ==
    IF xs = <<>> THEN <<>>
    ELSE InsertSorted(Head(xs), sorted(Tail(xs)))

\* sep.join(list of strings)
RECURSIVE join(_, _)
join(sep, xs) ==
    IF xs = <<>> THEN <<>>
    ELSE IF Len(xs) = 1 THEN Head(xs)
    ELSE Head(xs) \o sep \o join(sep, Tail(xs))

\* All sequences over S of length 0..n.
SeqsUpTo(S, n) == UNION { [1..k -> S] : k \in 0..n }

Range(f) == { f[i] : i \in DOMAIN f }

(***************************************************************************)
(* _matches_pattern: CODEOWNERS pattern -> regular expression -> re.match  *)
(*                                                                         *)
(* The regular expression is a sequence of tokens.  A pattern character    *)
(* other than '.' and '*' stands for itself (the model's alphabet holds no *)
(* other character that is special in a regular expression).               *)
(*   "lit"  c      the character c   ('.' is escaped to '\.')              *)
(*   "seg"         [^/]*                                                   *)
(*   "any"         .*                                                      *)
(*   "bol"         ^                                                       *)
(*   "bolOrSlash"  (^|/)                                                   *)
(*   "slashOrEol"  (/|$)                                                   *)
(***************************************************************************)
Lit(c) == [t |-> "lit", c |-> c]
SegStar == [t |-> "seg", c |-> ""]
DotStar == [t |-> "any", c |-> ""]
Bol == [t |-> "bol", c |-> ""]
BolOrSlash == [t |-> "bolOrSlash", c |-> ""]
SlashOrEol == [t |-> "slashOrEol", c |-> ""]

\* pattern.replace('.', r'\.').replace('*', '[^/]*'), character by character.
ReplaceChars(pattern) ==
    [i \in 1..Len(pattern) |-> IF pattern[i] = "*" THEN SegStar ELSE Lit(pattern[i])]

\* regex.replace('[^/]*[^/]*', '.*'): str.replace scans left to right and
\* replaces non-overlapping occurrences.
RECURSIVE ReplaceDoubleStar(_)
ReplaceDoubleStar(re) ==
    IF Len(re) < 2 THEN re
    ELSE IF re[1] = SegStar /\ re[2] = SegStar
         THEN <<DotStar>> \o ReplaceDoubleStar(SubSeq(re, 3, Len(re)))
         ELSE <<re[1]>> \o ReplaceDoubleStar(Tail(re))

EndsWithSlash(pattern) == pattern # <<>> /\ pattern[Len(pattern)] = "/"
StartsWithSlash(pattern) == pattern # <<>> /\ pattern[1] = "/"
HasStar(pattern) == \E i \in 1..Len(pattern) : pattern[i] = "*"

\* Lines 108-114: the translated pattern, with '.*' appended to a directory
\* pattern.
RegexBody(pattern) ==
    LET re == ReplaceDoubleStar(ReplaceChars(pattern))
    IN  IF EndsWithSlash(pattern) THEN re \o <<DotStar>> ELSE re

\* Lines 117-120: '^' + regex[1:] for a pattern starting with '/', '(^|/)' in
\* front of the others.
AnchorRegex(pattern, re) ==
    IF StartsWithSlash(pattern) THEN <<Bol>> \o Tail(re)
    ELSE <<BolOrSlash>> \o re

\* Lines 122-123: a pattern that is no directory and has no '*' must end at a
\* segment boundary.
EndRegex(pattern, re) ==
    IF ~EndsWithSlash(pattern) /\ ~HasStar(pattern) THEN re \o <<SlashOrEol>>
    ELSE re

\* The regular expression _matches_pattern hands to re.match.
PatternRegex(pattern) ==
    EndRegex(pattern, AnchorRegex(pattern, RegexBody(pattern)))

\* Whether the tokens re[i..] match the string s from position j on and, with
\* whole, up to its end.  (Backtracking finds a match exactly when one exists.)
RECURSIVE ReMatchFrom(_, _, _, _, _)
ReMatchFrom(re, i, s, j, whole) ==
    IF i > Len(re) THEN (~whole \/ j = Len(s) + 1)
    ELSE
      LET tok == re[i] IN
      CASE tok.t = "lit" ->
             j <= Len(s) /\ s[j] = tok.c /\ ReMatchFrom(re, i + 1, s, j + 1, whole)
        [] tok.t = "seg" ->
             \E k \in j..(Len(s) + 1) :
                /\ \A q \in j..(k - 1) : s[q] # "/"
                /\ ReMatchFrom(re, i + 1, s, k, whole)
        [] tok.t = "any" ->
             \E k \in j..(Len(s) + 1) : ReMatchFrom(re, i + 1, s, k, whole)
        [] tok.t = "bol" ->
             j = 1 /\ ReMatchFrom(re, i + 1, s, j, whole)
        [] tok.t = "bolOrSlash" ->
             \/ j = 1 /\ ReMatchFrom(re, i + 1, s, j, whole)
             \/ j <= Len(s) /\ s[j] = "/" /\ ReMatchFrom(re, i + 1, s, j + 1, whole)
        [] tok.t = "slashOrEol" ->
             \/ j <= Len(s) /\ s[j] = "/" /\ ReMatchFrom(re, i + 1, s, j + 1, whole)
             \/ j = Len(s) + 1 /\ ReMatchFrom(re, i + 1, s, j, whole)

\* re.match(regex, string): a match that starts at the start of the string and
\* may end anywhere.
re_match(re, s) == ReMatchFrom(re, 1, s, 1, FALSE)

\* _matches_pattern(pattern, file_path)
_matches_pattern(pattern, file_path) == re_match(PatternRegex(pattern), file_path)

(***************************************************************************)
(* match_files_to_groups                                                   *)
(***************************************************************************)

\* group_id = '_'.join(sorted(matched_rule['owners']))
group_id_of(owners) == join(<<"_">>, sorted(owners))

\* Mutant of LastMatchingRule: the first matching rule is kept instead of the
\* last one.
RECURSIVE FirstMatchingRule(_, _, _, _)
FirstMatchingRule(rules, i, file_path, matched) ==
    IF i > Len(rules) THEN matched
    ELSE IF matched = 0 /\ _matches_pattern(rules[i].pattern, file_path)
         THEN FirstMatchingRule(rules, i + 1, file_path, i)
         ELSE FirstMatchingRule(rules, i + 1, file_path, matched)

\* Lines 91-96: the loop over the rules in declared order; matched is the index
\* of the rule kept so far (0: None).
RECURSIVE LastMatchingRule(_, _, _, _)
LastMatchingRule(rules, i, file_path, matched) ==
    IF i > Len(rules) THEN matched
    ELSE IF _matches_pattern(rules[i].pattern, file_path)
         THEN LastMatchingRule(rules, i + 1, file_path, i)
         ELSE LastMatchingRule(rules, i + 1, file_path, matched)

\* file_groups[group_id].append(file_path) on a defaultdict(list)
AppendToGroup(file_groups, gid, file_path) ==
    IF gid \in DOMAIN file_groups
    THEN [file_groups EXCEPT ![gid] = Append(@, file_path)]
    ELSE file_groups @@ (gid :> <<file_path>>)

\* Lines 90-101: the loop over the files.
RECURSIVE GroupFiles(_, _, _, _)
GroupFiles(files, k, rules, file_groups) ==
    IF k > Len(files) THEN file_groups
    ELSE
      LET matched == LastMatchingRule(rules, 1, files[k], 0) IN
      IF matched # 0
      THEN GroupFiles(files, k + 1, rules,
                      AppendToGroup(file_groups, group_id_of(rules[matched].owners),
                                    files[k]))
      ELSE GroupFiles(files, k + 1, rules, file_groups)

\* match_files_to_groups(files, codeowners_rules): group_id -> list of files
match_files_to_groups(files, rules) == GroupFiles(files, 1, rules, <<>>)

(***************************************************************************)
(* More strings                                                            *)
(***************************************************************************)

\* s.split(sep) for a one-character separator: the pieces between the
\* separators, empty pieces kept.
RECURSIVE SplitFrom(_, _, _, _)
SplitFrom(s, i, sep, piece) ==
    IF i > Len(s) THEN <<piece>>
    ELSE IF s[i] = sep THEN <<piece>> \o SplitFrom(s, i + 1, sep, <<>>)
    ELSE SplitFrom(s, i + 1, sep, Append(piece, s[i]))

split(s, sep) == SplitFrom(s, 1, sep, <<>>)

\* s.lstrip(ch): every leading ch removed.
\* An owner token kept as written.
KeepLeading(s, ch) == s

RECURSIVE lstrip(_, _)
lstrip(s, ch) ==
    IF s # <<>> /\ Head(s) = ch THEN lstrip(Tail(s), ch) ELSE s

\* '/' in owner: a team identifier
IsTeam(owner) == \E i \in 1..Len(owner) : owner[i] = "/"

\* The elements of a list in order of first occurrence, each once (the order a
\* set built from the list is iterated in is not specified by Python; the
\* model fixes this one).
RECURSIVE Dedup(_)
Dedup(xs) ==
    IF xs = <<>> THEN <<>>
    ELSE LET rest == Dedup(SubSeq(xs, 1, Len(xs) - 1))
             x == xs[Len(xs)]
         IN  IF x \in Range(rest) THEN rest ELSE Append(rest, x)

RECURSIVE SeqOfSet(_)
SeqOfSet(S) ==
    IF S = {} THEN <<>>
    ELSE LET x == CHOOSE y \in S : \A z \in S : z = y \/ StrLess(y, z)
         IN  <<x>> \o SeqOfSet(S \ {x})

(***************************************************************************)
(* parse_codeowners.  The file is a sequence of lines, a line the sequence *)
(* of its whitespace-separated tokens (line.strip().split()).              *)
(***************************************************************************)
RECURSIVE ParseLines(_, _)
ParseLines(lines, i) ==
    IF i > Len(lines) THEN <<>>
    ELSE
      LET parts == lines[i] IN
      IF parts = <<>> \/ (Head(parts) # <<>> /\ Head(Head(parts)) = "#")
         \/ Len(parts) < 2
      THEN ParseLines(lines, i + 1)
      ELSE <<[pattern |-> parts[1],
              owners |-> [k \in 1..(Len(parts) - 1) |-> lstrip(parts[k + 1], "@")],
              rule_index |-> i - 1]>> \o ParseLines(lines, i + 1)

parse_codeowners(lines) == ParseLines(lines, 1)

\* The characters str.strip() and str.split() take for whitespace.
Whitespace == {" ", "\n", "\t", "\r"}

RECURSIVE rstrip_ws(_)
rstrip_ws(s) ==
    IF s # <<>> /\ s[Len(s)] \in Whitespace
    THEN rstrip_ws(SubSeq(s, 1, Len(s) - 1)) ELSE s

RECURSIVE lstrip_ws(_)
lstrip_ws(s) ==
    IF s # <<>> /\ Head(s) \in Whitespace THEN lstrip_ws(Tail(s)) ELSE s

\* str.strip()
strip(s) == lstrip_ws(rstrip_ws(s))

\* str.split() without argument: the runs of characters between whitespace.
RECURSIVE SplitWhitespace(_, _, _)
SplitWhitespace(s, i, piece) ==
    LET done == IF piece = <<>> THEN <<>> ELSE <<piece>> IN
    IF i > Len(s) THEN done
    ELSE IF s[i] \in Whitespace THEN done \o SplitWhitespace(s, i + 1, <<>>)
    ELSE SplitWhitespace(s, i + 1, Append(piece, s[i]))

\* Lines 53-59: content.strip().split('\n'), then line.strip() and
\* line.split() for every line.
TokenLines(content) ==
    LET lines == split(strip(content), "\n")
    IN  [i \in 1..Len(lines) |-> SplitWhitespace(strip(lines[i]), 1, <<>>)]

\* parse_codeowners on the text of the file.
parse_codeowners_content(content) == parse_codeowners(TokenLines(content))

(***************************************************************************)
(* The upstream repository: its CODEOWNERS file and its list of closed     *)
(* pull requests, newest first, in pages.  The list does not change.       *)
(***************************************************************************)
NumPRs == 12
PerPage == 4

DevA == <<"a">>
DevB == <<"b">>
DevC == <<"c">>
DevD == <<"d">>
DevE == <<"e">>
TeamOT == <<"o", "/", "t">>

FileS == <<"s", "/", "m">>
FileX == <<"x", "/", "m">>
FileQ == <<"q", "/", "m">>
FileR == <<"r">>

\*   # owners
\*   /s/ @a @b @e
\*   /x/ @c @o/t
\*   /q/ @e @o/t
CodeownersContent ==
    << << <<"#">>, <<"o">> >>,
       << <<"/", "s", "/">>, <<"@">> \o DevA, <<"@">> \o DevB, <<"@">> \o DevE >>,
       << <<"/", "x", "/">>, <<"@">> \o DevC, <<"@">> \o TeamOT >>,
       << <<"/", "q", "/">>, <<"@">> \o DevE, <<"@">> \o TeamOT >> >>

\* The CODEOWNERS file once every rule of it is commented out.
CodeownersNoRules ==
    << << <<"#">>, <<"/", "s", "/">>, <<"@">> \o DevA >> >>

\* What _fetch_codeowners may return at the start of a run.
CodeownersFiles == {CodeownersContent, CodeownersNoRules}

\* Pull request n as the API lists it, with its files and its approving reviews.
\* Number 5 was closed without a merge; number 7 touches no owned file.
UpstreamPR(n) ==
    [number |-> n,
     merged |-> n # 5,
     files |-> IF n = 7 THEN <<FileR>> ELSE <<FileS, FileX, FileQ>>,
     approvers |-> CASE n % 4 = 0 -> <<DevA, DevC>>
                     [] n % 4 = 1 -> <<DevB>>
                     [] n % 4 = 2 -> <<DevC, DevD>>
                     [] OTHER -> <<DevA, DevB, DevD>>,
     author |-> DevD,
     created_at |-> n % 2]

\* Page p of the listing (sort=updated, direction=desc): <<>> past the end.
UpstreamPage(p) ==
    LET first == listing - (p - 1) * PerPage
        count == IF first <= 0 THEN 0 ELSE IF first < PerPage THEN first ELSE PerPage
    IN  [k \in 1..count |-> UpstreamPR(first - k + 1)]

PageNumbers(p) == { UpstreamPage(p)[k].number : k \in 1..Len(UpstreamPage(p)) }

(***************************************************************************)
(* collect_codeowners_training_data                                        *)
(***************************************************************************)
MaxPage == 15
EarlyStopPages == 3
DefaultPrLimit == 1000
MidLimit == 8
PrLimits == {MidLimit, DefaultPrLimit}

\* _extract_codeowners_features: None (ok: FALSE) when no file matches a rule.
\* (The requests for the files and the reviews of a pull request are taken to
\* succeed.)
extract_codeowners_features(pr, patterns) ==
    LET file_groups == match_files_to_groups(pr.files, patterns) IN
    IF DOMAIN file_groups = {}
    THEN [ok |-> FALSE]
    ELSE [ok |-> TRUE,
          pr_number |-> pr.number,
          files |-> pr.files,
          file_groups |-> file_groups,
          approvers |-> pr.approvers,
          author |-> pr.author,
          created_at |-> pr.created_at]

\* Lines 183-202: the loop over the pull requests of one page.
\* st = [training_data, processed_prs, page_new_prs, page_skipped_prs]
RECURSIVE ScanPage(_, _, _, _, _)
ScanPage(prs, i, limit, patterns, st) ==
    IF i > Len(prs) THEN st
    ELSE IF Len(st.training_data) >= limit THEN st
    ELSE IF ~prs[i].merged THEN ScanPage(prs, i + 1, limit, patterns, st)
    ELSE IF prs[i].number \in st.processed_prs
         THEN ScanPage(prs, i + 1, limit, patterns,
                       [st EXCEPT !.page_skipped_prs = @ + 1])
    ELSE
      LET pr_data == extract_codeowners_features(prs[i], patterns) IN
      IF pr_data.ok
      THEN ScanPage(prs, i + 1, limit, patterns,
                    [st EXCEPT !.training_data = Append(@, pr_data),
                               !.page_new_prs = @ + 1,
                               !.processed_prs = @ \cup {pr_data.pr_number}])
      ELSE ScanPage(prs, i + 1, limit, patterns, st)

(***************************************************************************)
(* Feature dicts.  A Python dict is the sequence of its items in insertion *)
(* order; a quotient a / b is kept as the pair <<a, b>>.                   *)
(***************************************************************************)
dict_keys(d) == [i \in 1..Len(d) |-> d[i].key]

dict_get(d, key) == d[CHOOSE i \in 1..Len(d) : d[i].key = key].value

\* dict.update: a key already there keeps its place, a new one goes last.
RECURSIVE dict_update(_, _)
dict_update(d, items) ==
    IF items = <<>> THEN d
    ELSE LET it == Head(items)
             next == IF it.key \in Range(dict_keys(d))
                     THEN [i \in 1..Len(d) |-> IF d[i].key = it.key THEN it ELSE d[i]]
                     ELSE Append(d, it)
         IN  dict_update(next, Tail(items))

Quotient(a, b) == IF b > 0 THEN <<a, b>> ELSE <<0, 1>>

RECURSIVE SumLen(_, _, _)
SumLen(historical_data, i, group_id) ==
    IF i > Len(historical_data) THEN 0
    ELSE (IF group_id \in DOMAIN historical_data[i].file_groups
          THEN Len(historical_data[i].file_groups[group_id]) ELSE 0)
         + SumLen(historical_data, i + 1, group_id)

\* _calculate_developer_group_expertise
calculate_developer_group_expertise(developer, group_id, historical_data) ==
    LET touching == { i \in 1..Len(historical_data) :
                        group_id \in DOMAIN historical_data[i].file_groups }
        group_approvals ==
            Cardinality({ i \in touching :
                            developer \in Range(historical_data[i].approvers) })
        group_appearances == Cardinality(touching)
        similar_file_count == SumLen(historical_data, 1, group_id)
    IN  << [key |-> "dev_group_approval_count", value |-> group_approvals],
           [key |-> "dev_group_appearance_count", value |-> group_appearances],
           [key |-> "dev_group_approval_rate",
            value |-> Quotient(group_approvals, group_appearances)],
           [key |-> "dev_group_file_experience", value |-> similar_file_count],
           [key |-> "dev_group_experience_score",
            value |-> Quotient(group_approvals * 2 + similar_file_count, 10)] >>

\* Lines 300-308 (357-365): the features every sample of a group starts with.
group_basic_features(files, group_files, additions, deletions, title_length) ==
    << [key |-> "group_file_count", value |-> Len(group_files)],
       [key |-> "group_file_ratio", value |-> Quotient(Len(group_files), Len(files))],
       [key |-> "total_file_count", value |-> Len(files)],
       [key |-> "pr_size_additions", value |-> additions],
       [key |-> "pr_size_deletions", value |-> deletions],
       [key |-> "pr_total_changes", value |-> additions + deletions],
       [key |-> "pr_title_length", value |-> title_length] >>

\* Lines 317-329 (380-392): the features of the files of the group, none when
\* the group has no file.  No file of the model has an extension or a name
\* holding 'test'.
group_file_features(group_files) ==
    IF group_files = <<>> THEN <<>>
    ELSE
      LET depth(f) == Len(split(f, "/"))
          deepest == CHOOSE f \in Range(group_files) :
                        \A g \in Range(group_files) : depth(g) <= depth(f)
          dir(f) == SubSeq(split(f, "/"), 1, depth(f) - 1)
      IN  << [key |-> "group_unique_extensions", value |-> 0],
             [key |-> "group_unique_directories",
              value |-> Cardinality({ dir(f) : f \in Range(group_files) })],
             [key |-> "group_max_depth", value |-> depth(deepest)],
             [key |-> "group_has_tests", value |-> FALSE],
             [key |-> "group_has_docs", value |-> FALSE],
             [key |-> "group_has_config", value |-> FALSE] >>

\* Lines 332-339 (395-402): hour, day of the week and month of created_at, one
\* reading of the clock in the model.
temporal_features(created_at) ==
    << [key |-> "created_hour", value |-> created_at],
       [key |-> "created_day_of_week", value |-> created_at],
       [key |-> "created_month", value |-> created_at] >>

\* engineer_group_features.  The listing of pull requests carries no additions,
\* deletions or title length the model keeps: pr_data.get(..., 0).
engineer_group_features(pr_data, group_id, developer, all_training_data) ==
    LET group_files == IF group_id \in DOMAIN pr_data.file_groups
                       THEN pr_data.file_groups[group_id] ELSE <<>>
        basic == group_basic_features(pr_data.files, group_files, 0, 0, 0)
        dev_group_stats == calculate_developer_group_expertise(
                               developer, group_id, all_training_data)
    IN  dict_update(dict_update(dict_update(basic, dev_group_stats),
                      group_file_features(group_files)),
               temporal_features(pr_data.created_at))

(***************************************************************************)
(* Training data of the groups                                             *)
(***************************************************************************)
MinSamples == 20
MinClassSamples == 3

\* _get_all_group_ids
get_all_group_ids(raw_data) ==
    UNION { DOMAIN raw_data[i].file_groups : i \in 1..Len(raw_data) }

\* Lines 460-481: the samples one pull request gives a group: one per approver
\* who is an owner (label 1), then one per owner who did not approve (label 0).
\* The features of a sample are group_sample_features.
PrGroupSamples(pr_data, group_id) ==
    LET approvers == Dedup(pr_data.approvers)
        group_owners == split(group_id, "_")
        pos == SelectSeq(approvers, LAMBDA d : d \in Range(group_owners))
        neg == SelectSeq(group_owners, LAMBDA d : d \notin Range(approvers))
        sample(developer, label) ==
            [pr |-> pr_data.pr_number, developer |-> developer, label |-> label]
    IN  [k \in 1..Len(pos) |-> sample(pos[k], 1)]
        \o [k \in 1..Len(neg) |-> sample(neg[k], 0)]

\* Lines 466-470 and 474-478: the feature dict appended to group_samples with
\* a sample.
group_sample_features(raw_data, group_id, sample) ==
    LET pr_data == raw_data[CHOOSE i \in 1..Len(raw_data) :
                               raw_data[i].pr_number = sample.pr]
    IN  engineer_group_features(pr_data, group_id, sample.developer, raw_data)

\* Lines 458-481: the samples of a group over the pull requests that touch it.
RECURSIVE GroupSamples(_, _, _)
GroupSamples(raw_data, i, group_id) ==
    IF i > Len(raw_data) THEN <<>>
    ELSE (IF group_id \in DOMAIN raw_data[i].file_groups
          THEN PrGroupSamples(raw_data[i], group_id) ELSE <<>>)
         \o GroupSamples(raw_data, i + 1, group_id)

Positives(samples) == Cardinality({ k \in 1..Len(samples) : samples[k].label = 1 })
Negatives(samples) == Len(samples) - Positives(samples)

\* Both classes present in number, whatever the size of the dataset.
EnoughOfEachClass(samples) ==
    /\ Positives(samples) >= MinClassSamples
    /\ Negatives(samples) >= MinClassSamples

\* Lines 487-489 (and 622-632 for a team): enough samples, of both classes.
EnoughSamples(samples) ==
    /\ Len(samples) >= MinSamples
    /\ Positives(samples) >= MinClassSamples
    /\ Negatives(samples) >= MinClassSamples

\* prepare_group_training_data: group_id -> dataset, for the groups that qualify.
prepare_group_training_data(raw_data) ==
    LET qualifying == { g \in get_all_group_ids(raw_data) :
                          EnoughSamples(GroupSamples(raw_data, 1, g)) }
    IN  [g \in qualifying |-> GroupSamples(raw_data, 1, g)]

\* _store_group_developer_stats: the value stored under group_id.
group_stats_of(group_id, raw_data) ==
    [developer \in Range(split(group_id, "_")) |->
        calculate_developer_group_expertise(developer, group_id, raw_data)]

\* The fitted classifier with its scaler, opaque: what it was fitted on.
FitModel(samples, stamp) ==
    [fit_on |-> { samples[k].pr : k \in 1..Len(samples) },
     n_samples |-> Len(samples),
     fitted_at |-> stamp]

(***************************************************************************)
(* Training data of the teams                                              *)
(***************************************************************************)
\* Lines 552-559: the owners with a '/' over the groups of the data.
all_teams_of(raw_data) ==
    { owner \in UNION { Range(split(g, "_")) : g \in get_all_group_ids(raw_data) } :
        IsTeam(owner) }

\* Lines 576-580 (602-606, 683-686, 723-726): the pull request has files of a
\* group the team owns.
team_involved(pr_data, team_name) ==
    \E g \in DOMAIN pr_data.file_groups : team_name \in Range(split(g, "_"))

\* Lines 570-588: the members are the individuals who approved a pull request
\* the team is involved in.
team_members_of(team_name, raw_data) ==
    LET involved == { j \in 1..Len(raw_data) : team_involved(raw_data[j], team_name) }
        approvers == UNION { Range(raw_data[j].approvers) : j \in involved }
        clean == { lstrip(strip(a), "@") : a \in { x \in approvers : x # <<>> } }
    IN  { c \in clean : c # <<>> /\ ~IsTeam(c) }

\* Lines 597-619: one sample per member for every pull request the team is
\* involved in, labelled by whether the member approved it.
RECURSIVE TeamSamples(_, _, _, _)
TeamSamples(raw_data, i, team_name, members) ==
    IF i > Len(raw_data) THEN <<>>
    ELSE (IF team_involved(raw_data[i], team_name)
          THEN [k \in 1..Len(members) |->
                  [pr |-> raw_data[i].pr_number,
                   developer |-> members[k],
                   label |-> IF members[k] \in Range(raw_data[i].approvers)
                             THEN 1 ELSE 0]]
          ELSE <<>>)
         \o TeamSamples(raw_data, i + 1, team_name, members)

TeamDataset(team_name, raw_data) ==
    TeamSamples(raw_data, 1, team_name, SeqOfSet(team_members_of(team_name, raw_data)))

\* A team of one discovered member is kept.
AnyMember(team_members) == Cardinality(team_members) >= 1

\* Lines 590-594: a team with fewer than 2 discovered members is skipped.
EnoughMembers(team_members) == Cardinality(team_members) >= 2

\* prepare_team_training_data: team -> dataset, for the teams with at least 2
\* discovered members and enough samples.
prepare_team_training_data(raw_data) ==
    LET qualifying == { t \in all_teams_of(raw_data) :
                          /\ EnoughMembers(team_members_of(t, raw_data))
                          /\ EnoughSamples(TeamDataset(t, raw_data)) }
    IN  [t \in qualifying |-> TeamDataset(t, raw_data)]

\* _store_team_member_stats: the value stored under team_name.
team_stats_of(team_name, raw_data) ==
    LET involved == { j \in 1..Len(raw_data) : team_involved(raw_data[j], team_name) }
    IN  [member \in team_members_of(team_name, raw_data) |->
            [total_approvals |->
                Cardinality({ j \in involved : member \in Range(raw_data[j].approvers) }),
             team_appearances |-> Cardinality(involved)]]

(***************************************************************************)
(* The predictor and the persisted files                                   *)
(***************************************************************************)
NoFile == [exists |-> FALSE]
NoPredictor == [alive |-> FALSE]
NoDate == 0

\* __init__
NewPredictor ==
    [alive |-> TRUE,
     group_models |-> <<>>,
     group_features |-> <<>>,
     group_developer_stats |-> <<>>,
     team_models |-> <<>>,
     team_features |-> <<>>,
     team_member_stats |-> <<>>,
     codeowners_patterns |-> <<>>,
     is_trained |-> FALSE,
     training_date |-> NoDate,
     processed_prs |-> {}]

\* f with g's entries written over it (dict item assignment, key by key).
Overwrite(f, g) == g @@ f

\* Lines 665-668 (757-760): the features of the pull request in a team sample.
team_basic_features(files, additions, deletions) ==
    << [key |-> "pr_additions", value |-> additions],
       [key |-> "pr_deletions", value |-> deletions],
       [key |-> "pr_total_changes", value |-> additions + deletions],
       [key |-> "pr_file_count", value |-> Len(files)] >>

\* len(self.team_member_stats.get(team_name, {}))
stored_member_count(p, team_name) ==
    IF team_name \in DOMAIN p.team_member_stats
    THEN Cardinality(DOMAIN p.team_member_stats[team_name]) ELSE 0

\* engineer_team_features: the features of a training sample of a team, on the
\* predictor as it is when the dataset is prepared.
engineer_team_features(p, pr_data, team_name, member, all_training_data) ==
    LET involved == { j \in 1..Len(all_training_data) :
                        team_involved(all_training_data[j], team_name) }
        member_approvals ==
            Cardinality({ j \in involved :
                            member \in Range(all_training_data[j].approvers) })
    IN  team_basic_features(pr_data.files, 0, 0) \o
        << [key |-> "member_total_approvals", value |-> member_approvals],
           [key |-> "member_pr_appearances", value |-> Cardinality(involved)],
           [key |-> "member_approval_rate",
            value |-> Quotient(member_approvals, Cardinality(involved))],
           [key |-> "member_approval_frequency",
            value |-> Quotient(member_approvals, Len(all_training_data))],
           [key |-> "team_member_count", value |-> stored_member_count(p, team_name)] >>

\* Line 639: list(team_samples[0].keys()), the first sample being that of the
\* first member for the first pull request the team is involved in.
first_team_sample_keys(p, team_name, raw_data) ==
    LET first == CHOOSE j \in 1..Len(raw_data) :
                     /\ team_involved(raw_data[j], team_name)
                     /\ \A i \in 1..(j - 1) : ~team_involved(raw_data[i], team_name)
        member == Head(SeqOfSet(team_members_of(team_name, raw_data)))
    IN  dict_keys(engineer_team_features(p, raw_data[first], team_name, member, raw_data))

\* Lines 834-940: the fields of the predictor after the models of new_prs are
\* fitted and stored.  group_scalers and team_scalers are stored with the
\* models, under the same keys.
Fitted(p, new_prs, stamp) ==
    LET group_datasets == prepare_group_training_data(new_prs)
        team_datasets == prepare_team_training_data(new_prs)
    IN  [p EXCEPT
           !.group_features =
               Overwrite(@, [g \in DOMAIN group_datasets |->
                               dict_keys(group_sample_features(new_prs, g,
                                                        group_datasets[g][1]))]),
           !.group_models =
               Overwrite(@, [g \in DOMAIN group_datasets |->
                               FitModel(group_datasets[g], stamp)]),
           !.group_developer_stats =
               Overwrite(@, [g \in DOMAIN group_datasets |-> group_stats_of(g, new_prs)]),
           !.team_features =
               Overwrite(@, [t \in DOMAIN team_datasets |->
                               first_team_sample_keys(p, t, new_prs)]),
           !.team_member_stats =
               Overwrite(@, [t \in DOMAIN team_datasets |-> team_stats_of(t, new_prs)]),
           !.team_models =
               Overwrite(@, [t \in DOMAIN team_datasets |->
                               FitModel(team_datasets[t], stamp)]),
           !.is_trained = TRUE,
           !.training_date = stamp]

\* save_model: what joblib.dump writes.
model_data_of(p) ==
    [exists |-> TRUE,
     group_models |-> p.group_models,
     group_features |-> p.group_features,
     group_developer_stats |-> p.group_developer_stats,
     team_models |-> p.team_models,
     team_features |-> p.team_features,
     team_member_stats |-> p.team_member_stats,
     codeowners_patterns |-> p.codeowners_patterns,
     is_trained |-> p.is_trained,
     training_date |-> p.training_date]

\* Mutant of loaded_from: the stored statistics are not restored.
LoadedWithoutStats(p, model_data) ==
    [p EXCEPT
       !.group_models = model_data.group_models,
       !.group_features = model_data.group_features,
       !.team_models = model_data.team_models,
       !.team_features = model_data.team_features,
       !.codeowners_patterns = model_data.codeowners_patterns,
       !.is_trained = model_data.is_trained,
       !.training_date = model_data.training_date]

\* load_model: the fields joblib.load restores (processed_prs is not one).
loaded_from(p, model_data) ==
    [p EXCEPT
       !.group_models = model_data.group_models,
       !.group_features = model_data.group_features,
       !.group_developer_stats = model_data.group_developer_stats,
       !.team_models = model_data.team_models,
       !.team_features = model_data.team_features,
       !.team_member_stats = model_data.team_member_stats,
       !.codeowners_patterns = model_data.codeowners_patterns,
       !.is_trained = model_data.is_trained,
       !.training_date = model_data.training_date]

\* load_training_log: the processed ids read, none when the file is absent or
\* the read raises (the exception is caught and the default returned).
load_training_log(file, readOk) ==
    IF file.exists /\ readOk THEN file.processed_prs ELSE {}

\* save_training_log: the file after the write; a failed write is caught and
\* leaves the file as it was.
save_training_log(file, processed_prs, stamp, writeOk) ==
    IF writeOk
    THEN [exists |-> TRUE, processed_prs |-> processed_prs, last_training_date |-> stamp]
    ELSE file

(***************************************************************************)
(* predict_approvers                                                       *)
(***************************************************************************)
NoResult == [kind |-> "none"]
NoCall == [files |-> <<>>, top_k |-> 0, now |-> 0, now_loaded |-> 0]

\* The readings of the clock (datetime.now().hour) a prediction may be made at,
\* and the values of top_k the callers pass.
Clocks == {0, 1}
TopKs == {1, 3}

\* predict_proba returns the probability of approval in steps of 1/ProbScale.
ProbScale == 10

\* Defaults that leave out the experience score.
DefaultsWithoutScore ==
    << [key |-> "dev_group_approval_count", value |-> 0],
       [key |-> "dev_group_appearance_count", value |-> 0],
       [key |-> "dev_group_approval_rate", value |-> <<0, 1>>],
       [key |-> "dev_group_file_experience", value |-> 0] >>

\* Lines 374-381: the statistics of a developer without stored statistics.
NoGroupStats ==
    << [key |-> "dev_group_approval_count", value |-> 0],
       [key |-> "dev_group_appearance_count", value |-> 0],
       [key |-> "dev_group_approval_rate", value |-> <<0, 1>>],
       [key |-> "dev_group_file_experience", value |-> 0],
       [key |-> "dev_group_experience_score", value |-> <<0, 1>>] >>

\* Lines 995-1002: additions, deletions and title of the dummy pull request.
DummyAdditions == 100
DummyDeletions == 50
DummyTitleLength == 7

\* engineer_group_features_for_prediction
engineer_group_features_for_prediction(p, files, group_id, group_files, developer, now) ==
    LET basic == group_basic_features(files, group_files, DummyAdditions,
                                      DummyDeletions, DummyTitleLength)
        stored_stats ==
            IF group_id \in DOMAIN p.group_developer_stats
               /\ developer \in DOMAIN p.group_developer_stats[group_id]
            THEN p.group_developer_stats[group_id][developer]
            ELSE NoGroupStats
    IN  dict_update(dict_update(dict_update(basic, stored_stats), group_file_features(group_files)),
               temporal_features(now))

\* engineer_team_features_for_prediction
engineer_team_features_for_prediction(p, files, team_name, member) ==
    LET known == team_name \in DOMAIN p.team_member_stats
                 /\ member \in DOMAIN p.team_member_stats[team_name]
        member_stats == p.team_member_stats[team_name][member]
        rate == IF known
                THEN Quotient(member_stats.total_approvals, member_stats.team_appearances)
                ELSE <<0, 1>>
    IN  team_basic_features(files, DummyAdditions, DummyDeletions) \o
        << [key |-> "member_total_approvals",
            value |-> IF known THEN member_stats.total_approvals ELSE 0],
           [key |-> "member_pr_appearances",
            value |-> IF known THEN member_stats.team_appearances ELSE 0],
           [key |-> "member_approval_rate", value |-> rate],
           [key |-> "member_approval_frequency", value |-> rate],
           [key |-> "team_member_count", value |-> stored_member_count(p, team_name)] >>

\* scaler.transform and model.predict_proba of a group classifier: the
\* classifier is opaque, its answer is a function of the fitted model and of the
\* feature vector.  The model takes one such function, in units of 1/ProbScale.
group_predict_proba(model, features) ==
    (model.n_samples + 3 * dict_get(features, "dev_group_approval_count")
       + dict_get(features, "group_file_count") + dict_get(features, "created_hour"))
      % (ProbScale + 1)

\* The same for a team classifier.
team_predict_proba(model, features) ==
    (model.n_samples + 3 * dict_get(features, "member_total_approvals")
       + dict_get(features, "pr_file_count") + dict_get(features, "team_member_count"))
      % (ProbScale + 1)

\* developer_scores[developer] += amount on a defaultdict(float); the list
\* keeps the insertion order of the dict.  Scores are numerators over
\* ProbScale * len(files).
AddScore(developer_scores, developer, amount) ==
    IF \E k \in 1..Len(developer_scores) : developer_scores[k].developer = developer
    THEN [k \in 1..Len(developer_scores) |->
            IF developer_scores[k].developer = developer
            THEN [developer_scores[k] EXCEPT !.score = @ + amount]
            ELSE developer_scores[k]]
    ELSE Append(developer_scores, [developer |-> developer, score |-> amount])

\* Lines 1014-1042: the loop over the members of a team that has a model.
RECURSIVE ScoreMembers(_, _, _, _, _, _, _)
ScoreMembers(p, files, team_name, members, k, weight, developer_scores) ==
    IF k > Len(members) THEN developer_scores
    ELSE
      LET features == engineer_team_features_for_prediction(p, files, team_name,
                                                            members[k])
          approval_prob == team_predict_proba(p.team_models[team_name], features)
      IN  ScoreMembers(p, files, team_name, members, k + 1, weight,
                       AddScore(developer_scores, members[k], approval_prob * weight))

\* Lines 1008-1071: the loop over the owners of a group that has a model.
\* weight is len(group_files), the numerator of len(group_files) / len(files).
RECURSIVE ScoreOwners(_, _, _, _, _, _, _, _)
ScoreOwners(p, files, group_id, group_files, group_owners, k, now, developer_scores) ==
    IF k > Len(group_owners) THEN developer_scores
    ELSE
      LET owner == group_owners[k]
          weight == Len(group_files)
          next ==
            IF IsTeam(owner)
            THEN IF owner \in DOMAIN p.team_models
                 THEN ScoreMembers(p, files, owner,
                                   IF owner \in DOMAIN p.team_member_stats
                                   THEN SeqOfSet(DOMAIN p.team_member_stats[owner])
                                   ELSE <<>>,
                                   1, weight, developer_scores)
                 ELSE developer_scores
            ELSE
              LET features == engineer_group_features_for_prediction(
                                  p, files, group_id, group_files, owner, now)
                  approval_prob == group_predict_proba(p.group_models[group_id],
                                                       features)
              IN  AddScore(developer_scores, owner, approval_prob * weight)
      IN  ScoreOwners(p, files, group_id, group_files, group_owners, k + 1, now, next)

\* The keys of file_groups in the order of the dict: by first file.
GroupKeys(files, rules) ==
    LET winners == [k \in 1..Len(files) |-> LastMatchingRule(rules, 1, files[k], 0)]
        matched == SelectSeq([k \in 1..Len(files) |-> k], LAMBDA k : winners[k] # 0)
    IN  Dedup([n \in 1..Len(matched) |-> group_id_of(rules[winners[matched[n]]].owners)])

\* Mutant of ScoreGroups: a group without a classifier of its own still has the
\* members of its team owners scored by the team classifiers.
RECURSIVE ScoreGroupsTeamsAnyway(_, _, _, _, _, _, _)
ScoreGroupsTeamsAnyway(p, files, file_groups, keys, k, now, developer_scores) ==
    IF k > Len(keys) THEN developer_scores
    ELSE ScoreGroupsTeamsAnyway(
             p, files, file_groups, keys, k + 1, now,
             ScoreOwners(p, files, keys[k], file_groups[keys[k]],
                         IF keys[k] \in DOMAIN p.group_models
                         THEN split(keys[k], "_")
                         ELSE SelectSeq(split(keys[k], "_"), IsTeam),
                         1, now, developer_scores))

\* Lines 992-1075: the loop over the resolved groups.
RECURSIVE ScoreGroups(_, _, _, _, _, _, _)
ScoreGroups(p, files, file_groups, keys, k, now, developer_scores) ==
    IF k > Len(keys) THEN developer_scores
    ELSE IF keys[k] \in DOMAIN p.group_models
         THEN ScoreGroups(p, files, file_groups, keys, k + 1, now,
                          ScoreOwners(p, files, keys[k], file_groups[keys[k]],
                                      split(keys[k], "_"), 1, now, developer_scores))
         ELSE ScoreGroups(p, files, file_groups, keys, k + 1, now, developer_scores)

\* Mutant of SortByScore: the scores are left in the order of the dict.
KeepOrder(items) == items

\* Lines 1078-1082: sorted(..., key=score, reverse=True); the sort is stable,
\* items of equal score keep their order.
RECURSIVE SortByScore(_)
SortByScore(items) ==
    IF items = <<>> THEN <<>>
    ELSE
      LET rest == SortByScore(SubSeq(items, 1, Len(items) - 1))
          x == items[Len(items)]
          before == SelectSeq(rest, LAMBDA y : y.score >= x.score)
          after == SelectSeq(rest, LAMBDA y : y.score < x.score)
      IN  before \o <<x>> \o after

\* Lines 1089-1095
group_count_of(p, keys, developer) ==
    Cardinality({ k \in 1..Len(keys) :
                    /\ keys[k] \in DOMAIN p.group_models
                    /\ developer \in Range(split(keys[k], "_")) })

\* Lines 1097-1105: one count per (group, owner) pair.
team_count_of(p, keys, developer) ==
    Cardinality({ ko \in UNION { { <<k, o>> : o \in 1..Len(split(keys[k], "_")) } :
                                    k \in 1..Len(keys) } :
                    LET group_owners == split(keys[ko[1]], "_") IN
                    /\ IsTeam(group_owners[ko[2]])
                    /\ group_owners[ko[2]] \in DOMAIN p.team_models
                    /\ group_owners[ko[2]] \in DOMAIN p.team_member_stats
                    /\ developer \in DOMAIN p.team_member_stats[group_owners[ko[2]]] })

\* Lines 1107-1115
reasoning_parts_of(group_count, team_count) ==
    IF group_count > 0 /\ team_count > 0 THEN <<"group", "team">>
    ELSE IF group_count > 0 THEN <<"group">>
    ELSE IF team_count > 0 THEN <<"team">>
    ELSE <<"unknown">>

\* Lines 1117-1122: one entry of the result.  probability is num / den;
\* confidence is min(score * 100, 100).
PredictionEntry(p, keys, item, den) ==
    LET group_count == group_count_of(p, keys, item.developer)
        team_count == team_count_of(p, keys, item.developer)
    IN  [approver |-> item.developer,
         probability |-> [num |-> item.score, den |-> den],
         confidence |-> IF item.score > den THEN [num |-> 100, den |-> 1]
                        ELSE [num |-> item.score * 100, den |-> den],
         group_count |-> group_count,
         team_count |-> team_count,
         reasoning |-> reasoning_parts_of(group_count, team_count)]

\* predict_approvers(files, top_k) called when the clock reads now.
predict_approvers(p, files, top_k, now) ==
    IF ~p.is_trained THEN [kind |-> "NotTrained"]
    ELSE IF p.codeowners_patterns = <<>> THEN [kind |-> "NoPatterns"]
    ELSE
      LET file_groups == match_files_to_groups(files, p.codeowners_patterns)
          keys == GroupKeys(files, p.codeowners_patterns)
      IN  IF DOMAIN file_groups = {} THEN [kind |-> "list", predictions |-> <<>>]
          ELSE
            LET developer_scores == ScoreGroups(p, files, file_groups, keys, 1, now, <<>>)
                sorted_predictions == SortByScore(developer_scores)
                n == IF top_k < Len(sorted_predictions) THEN top_k
                     ELSE Len(sorted_predictions)
            IN  [kind |-> "list",
                 predictions |->
                     [k \in 1..n |->
                         PredictionEntry(p, keys, sorted_predictions[k],
                                         ProbScale * Len(files))]]

(***************************************************************************)
(* The training run and its callers                                        *)
(***************************************************************************)
MaxRuns == 2

NoSummary == [kind |-> "none"]
NoPrev == [wrote |-> FALSE, clean |-> FALSE, pr_limit |-> 0, rules |-> <<>>]

\* A summary that counts the samples of the classifiers the predictor holds.
StoredSummary(p) ==
    [kind |-> "skipped",
     message |-> "No new PRs found - training skipped",
     trained_groups |-> Cardinality(DOMAIN p.group_models),
     total_samples |->
         Cardinality(UNION { p.group_models[g].fit_on : g \in DOMAIN p.group_models }),
     new_prs_processed |-> 0]

\* Lines 808-815
SkippedSummary(p) ==
    [kind |-> "skipped",
     message |-> "No new PRs found - training skipped",
     trained_groups |-> Cardinality(DOMAIN p.group_models),
     total_samples |-> 0,
     new_prs_processed |-> 0]

SumSamples(models) ==
    LET RECURSIVE Sum(_)
        Sum(S) == IF S = {} THEN 0
                  ELSE LET x == CHOOSE y \in S : TRUE
                       IN  models[x].n_samples + Sum(S \ {x})
    IN  Sum(DOMAIN models)

\* Lines 942-953
TrainedSummary(new_prs) ==
    LET group_datasets == prepare_group_training_data(new_prs)
        team_datasets == prepare_team_training_data(new_prs)
    IN  [kind |-> "trained",
         message |-> "",
         trained_groups |-> Cardinality(DOMAIN group_datasets),
         trained_teams |-> Cardinality(DOMAIN team_datasets),
         total_samples |->
             SumSamples([g \in DOMAIN group_datasets |->
                           [n_samples |-> Len(group_datasets[g])]]),
         new_prs_processed |-> Len(new_prs)]

\* What train fits and stores in the predictor (lines 834-940).
FittedFields(p) ==
    [group_models |-> p.group_models,
     team_models |-> p.team_models,
     group_developer_stats |-> p.group_developer_stats,
     team_member_stats |-> p.team_member_stats,
     is_trained |-> p.is_trained]

NoSnapshot == [fields |-> <<>>, ledger |-> NoFile]

\* The run is over: its locals are gone.
EndRun ==
    /\ entry' = "script"
    /\ pr_limit' = 0
    /\ page' = 1
    /\ training_data' = <<>>
    /\ consecutive_skipped_pages' = 0
    /\ fetch_failed' = FALSE
    /\ read_failed' = FALSE
    /\ log_written' = FALSE
    /\ at_call' = NoSnapshot

Done(op) ==
    /\ last_op' = op
    /\ pr_result' = NoResult
    /\ pr_call' = NoCall
    /\ pr_loaded' = NoResult
    /\ UNCHANGED <<matchVars, groupVars, parseVars, prepVars, listing>>

\* The caller constructs a predictor (or goes on with the one it has) and calls
\* train.  Lines 797-799 and 150-159: the ledger is read, the CODEOWNERS file
\* fetched and parsed.  readOk: the read of an existing ledger file succeeds.
TrainBegin(e, fresh, limit, readOk, codeowners_content) ==
    /\ pc = "idle"
    /\ fresh \/ predictor.alive
    /\ e = "main" => fresh
    /\ readOk \/ ledgerFile.exists
    /\ predictor' = [(IF fresh THEN NewPredictor ELSE predictor) EXCEPT
                       !.processed_prs = load_training_log(ledgerFile, readOk),
                       !.codeowners_patterns = parse_codeowners(codeowners_content)]
    /\ pc' = "collect"
    /\ summary' = NoSummary
    /\ entry' = e
    /\ pr_limit' = limit
    /\ read_failed' = ~readOk
    /\ runs' = IF runs < MaxRuns THEN runs + 1 ELSE runs
    /\ page' = 1
    /\ training_data' = <<>>
    /\ consecutive_skipped_pages' = 0
    /\ fetch_failed' = FALSE
    /\ log_written' = FALSE
    /\ at_call' = [fields |-> FittedFields(IF fresh THEN NewPredictor ELSE predictor),
                    ledger |-> ledgerFile]
    /\ UNCHANGED <<fileVars, prev>>
    /\ Done("TrainBegin")

\* Lines 161-215: one turn of the loop over the pages.  ok: the page request
\* answered 200.
CollectPage(ok) ==
    /\ pc = "collect"
    /\ Len(training_data) < pr_limit /\ page <= MaxPage
    /\ IF ~ok
       THEN /\ fetch_failed' = TRUE
            /\ pc' = "collected"
            /\ UNCHANGED <<predictor, page, training_data, consecutive_skipped_pages>>
       ELSE IF UpstreamPage(page) = <<>>
       THEN /\ pc' = "collected"
            /\ UNCHANGED <<predictor, page, training_data, consecutive_skipped_pages,
                           fetch_failed>>
       ELSE
         LET st == ScanPage(UpstreamPage(page), 1, pr_limit,
                            predictor.codeowners_patterns,
                            [training_data |-> training_data,
                             processed_prs |-> predictor.processed_prs,
                             page_new_prs |-> 0,
                             page_skipped_prs |-> 0])
             skipped_only == st.page_new_prs = 0 /\ st.page_skipped_prs > 0
             stop == skipped_only /\ consecutive_skipped_pages + 1 >= EarlyStopPages
         IN  /\ training_data' = st.training_data
             /\ predictor' = [predictor EXCEPT !.processed_prs = st.processed_prs]
             /\ consecutive_skipped_pages' =
                    IF skipped_only THEN consecutive_skipped_pages + 1 ELSE 0
             /\ page' = IF stop THEN page ELSE page + 1
             /\ pc' = IF stop THEN "collected" ELSE "collect"
             /\ UNCHANGED fetch_failed
    /\ UNCHANGED <<fileVars, entry, pr_limit, read_failed, log_written, summary,
                   runs, prev, at_call>>
    /\ Done("CollectPage")

\* Line 161: the loop ends at the limit or after the last page asked for.
CollectDone ==
    /\ pc = "collect"
    /\ ~(Len(training_data) < pr_limit /\ page <= MaxPage)
    /\ pc' = "collected"
    /\ UNCHANGED <<fileVars, predictor, runVars, summary, runs, prev, at_call>>
    /\ Done("CollectDone")

\* Lines 805-960: the rest of train.  writeOk: the write of the ledger succeeds.
Train(writeOk) ==
    /\ pc = "collected"
    /\ IF Len(training_data) = 0
       THEN /\ writeOk
            /\ summary' = SkippedSummary(predictor)
            /\ UNCHANGED <<fileVars, predictor, log_written>>
       ELSE /\ prLogFile' = { training_data[i].pr_number : i \in 1..Len(training_data) }
            /\ predictor' = Fitted(predictor, training_data, runs)
            /\ summary' = TrainedSummary(training_data)
            /\ ledgerFile' = save_training_log(ledgerFile, predictor.processed_prs,
                                               runs, writeOk)
            /\ log_written' = writeOk
            /\ UNCHANGED modelFile
    /\ pc' = "returned"
    /\ UNCHANGED <<entry, pr_limit, page, training_data, consecutive_skipped_pages,
                   fetch_failed, read_failed, runs, prev, at_call>>
    /\ Done("Train")

HowRunEnded ==
    [wrote |-> log_written,
     clean |-> ~fetch_failed /\ ~read_failed,
     pr_limit |-> pr_limit,
     rules |-> predictor.codeowners_patterns]

\* codeowners_ml_train.py line 33 (train_codeowners_ml.py line 35,
\* test-python-incremental.py line 61): the caller saves the model.  The
\* process of the entry point ends after it.
SaveModel ==
    /\ pc = "returned"
    /\ modelFile' = model_data_of(predictor)
    /\ predictor' = IF entry = "main" THEN NoPredictor ELSE predictor
    /\ pc' = "idle"
    /\ prev' = HowRunEnded
    /\ EndRun
    /\ UNCHANGED <<ledgerFile, prLogFile, summary, runs>>
    /\ Done("SaveModel")

\* test-python-incremental.py lines 81 and 108: the caller goes on without
\* saving the model.
ReturnOnly ==
    /\ pc = "returned"
    /\ entry = "script"
    /\ pc' = "idle"
    /\ prev' = HowRunEnded
    /\ EndRun
    /\ UNCHANGED <<fileVars, predictor, summary, runs>>
    /\ Done("ReturnOnly")

\* codeowners_ml_predict.py lines 15-22: a new predictor loads the model file.
LoadModel ==
    /\ pc = "idle"
    /\ modelFile.exists
    /\ predictor' = loaded_from(NewPredictor, modelFile)
    /\ UNCHANGED <<fileVars, pc, runVars, summary, runs, prev, at_call>>
    /\ Done("LoadModel")

PredictFiles == { <<FileR>>, <<FileX>>, <<FileS, FileX>> }

\* codeowners_ml_predict.py line 36 (train_codeowners_ml.py line 54): one call
\* of predict_approvers on the predictor of the process.
Predict(files, top_k, now) ==
    /\ pc = "idle"
    /\ predictor.alive
    /\ last_op \notin {"Predict", "PredictLoaded"}
    /\ pr_result' = predict_approvers(predictor, files, top_k, now)
    /\ pr_call' = [files |-> files, top_k |-> top_k, now |-> now, now_loaded |-> 0]
    /\ pr_loaded' = NoResult
    /\ last_op' = "Predict"
    /\ UNCHANGED <<matchVars, groupVars, parseVars, prepVars, listing, fileVars, predictor, pc, runVars, summary,
                   runs, prev, at_call>>

\* test-python-incremental.py lines 135-145: a second predictor loads the model
\* file and is asked the same prediction, when the clock reads now.
PredictLoaded(now) ==
    /\ pc = "idle"
    /\ last_op = "Predict"
    /\ modelFile.exists
    /\ pr_loaded' = predict_approvers(loaded_from(NewPredictor, modelFile),
                                      pr_call.files, pr_call.top_k, now)
    /\ pr_call' = [pr_call EXCEPT !.now_loaded = now]
    /\ last_op' = "PredictLoaded"
    /\ UNCHANGED <<matchVars, groupVars, parseVars, prepVars, listing, fileVars, predictor, pc, runVars, summary,
                   runs, prev, at_call, pr_result>>

\* test-python-incremental.py lines 43-44 and 97-98: the explicit reset.
DeleteLedger ==
    /\ pc = "idle"
    /\ ledgerFile.exists
    /\ ledgerFile' = NoFile
    /\ prev' = NoPrev
    /\ UNCHANGED <<modelFile, prLogFile, predictor, pc, runVars, summary, runs, at_call>>
    /\ Done("DeleteLedger")

\* The process dies in the middle of a run; the files stay as they are.
Crash ==
    /\ pc \in {"collect", "collected", "returned"}
    /\ pc' = "idle"
    /\ predictor' = NoPredictor
    /\ prev' = NoPrev
    /\ summary' = [kind |-> "crashed",
                   new_prs |-> { training_data[i].pr_number : i \in 1..Len(training_data) },
                   stamp |-> runs]
    /\ EndRun
    /\ UNCHANGED <<fileVars, runs>>
    /\ Done("Crash")

(***************************************************************************)
(* Specifications                                                          *)
(***************************************************************************)
MatchIdle ==
    /\ m_pattern = <<>> /\ m_path = <<>> /\ m_done = FALSE /\ m_result = FALSE
GroupIdle ==
    /\ g_rules = <<>> /\ g_files = <<>> /\ g_done = FALSE /\ g_groups = <<>>
ParseIdle ==
    /\ p_content = <<>> /\ p_done = FALSE /\ p_rules = <<>>
PrepIdle ==
    /\ d_input = <<>> /\ d_done = FALSE /\ d_prepared = <<>>
TrainIdle ==
    /\ ledgerFile = NoFile
    /\ modelFile = NoFile
    /\ prLogFile = {}
    /\ predictor = NoPredictor
    /\ pc = "idle"
    /\ entry = "script"
    /\ pr_limit = 0
    /\ page = 1
    /\ training_data = <<>>
    /\ consecutive_skipped_pages = 0
    /\ fetch_failed = FALSE
    /\ read_failed = FALSE
    /\ log_written = FALSE
    /\ summary = NoSummary
    /\ runs = 0
    /\ prev = NoPrev
    /\ at_call = NoSnapshot
    /\ pr_result = NoResult
    /\ pr_call = NoCall
    /\ pr_loaded = NoResult
    /\ last_op = "Init"

Init ==
    /\ MatchIdle /\ GroupIdle /\ TrainIdle /\ ParseIdle /\ PrepIdle
    /\ listing = NumPRs

Next ==
    \/ \E e \in {"main", "script"}, fresh \in BOOLEAN, limit \in PrLimits,
          readOk \in BOOLEAN, codeowners_content \in CodeownersFiles :
          /\ runs < MaxRuns
          /\ TrainBegin(e, fresh, limit, readOk, codeowners_content)
    \/ \E ok \in BOOLEAN : CollectPage(ok)
    \/ CollectDone
    \/ \E writeOk \in BOOLEAN : Train(writeOk)
    \/ SaveModel
    \/ ReturnOnly
    \/ LoadModel
    \/ \E files \in PredictFiles, top_k \in TopKs, now \in Clocks :
          Predict(files, top_k, now)
    \/ \E now \in Clocks : PredictLoaded(now)
    \/ DeleteLedger
    \/ Crash

Spec == Init /\ [][Next]_vars

(***************************************************************************)
(* Training runs repeated for ever over a listing of LiveListing closed    *)
(* pull requests that does not change, no request and no file access       *)
(* failing.  The run counter, the clock of the stamps, stops at MaxRuns.    *)
(***************************************************************************)
LiveListing == 20

InitLive ==
    /\ MatchIdle /\ GroupIdle /\ TrainIdle /\ ParseIdle /\ PrepIdle
    /\ listing = LiveListing

\* The caller starts a run: the entry point in a new process, or a script on
\* a new or a live predictor.
BeginRun ==
    \E e \in {"main", "script"}, fresh \in BOOLEAN, limit \in PrLimits :
        TrainBegin(e, fresh, limit, TRUE, CodeownersContent)

\* What the caller does with the predictor once train has returned.
EndOfRun == SaveModel \/ ReturnOnly

NextLive ==
    \/ BeginRun
    \/ CollectPage(TRUE)
    \/ CollectDone
    \/ Train(TRUE)
    \/ EndOfRun

\* A caller that goes on training: whenever no run is in progress it starts
\* one, and it takes the predictor back when train returns.
SpecLive ==
    InitLive /\ [][NextLive]_vars /\ WF_vars(BeginRun) /\ WF_vars(EndOfRun)

(***************************************************************************)
(* _matches_pattern on its own: the patterns and paths it is applied to    *)
(***************************************************************************)
MaxPatLen == 4
MaxPathLen == 4
PatChars == {"a", "/", "*"}
PathChars == {"a", "b", "/"}

PatDocsRoot == <<"/", "d", "o", "c", "s", "/">>
PatDocs == <<"d", "o", "c", "s", "/">>
PathDocs == <<"d", "o", "c", "s", "/", "r", "e", "a", "d", "m", "e", ".", "m", "d">>
PathOtherDocs == <<"o", "t", "h", "e", "r", "/", "d", "o", "c", "s", "/", "r", "e", "a", "d", "m", "e", ".", "m", "d">>
PatTests == <<"*", "*", "/", "t", "e", "s", "t", "_", "*", ".", "p", "y">>
PathNestedTest == <<"a", "/", "b", "/", "t", "e", "s", "t", "_", "x", ".", "p", "y">>
PathRootTest == <<"t", "e", "s", "t", "_", "x", ".", "p", "y">>
PatSrcStar == <<"/", "s", "r", "c", "/", "*">>
PathSrcA == <<"s", "r", "c", "/", "a", ".", "p", "y">>
PathSrcAB == <<"s", "r", "c", "/", "a", "/", "b", ".", "p", "y">>

\* A repository-relative file path: no empty segment.
WellFormedPath(f) ==
    /\ f # <<>>
    /\ f[1] # "/" /\ f[Len(f)] # "/"
    /\ \A i \in 1..(Len(f) - 1) : ~(f[i] = "/" /\ f[i + 1] = "/")

\* A pattern is a whitespace-free token of a CODEOWNERS line, hence non-empty.
Patterns ==
    (SeqsUpTo(PatChars, MaxPatLen) \ {<<>>}) \cup {PatDocsRoot, PatDocs, PatTests, PatSrcStar}
Paths ==
    { f \in SeqsUpTo(PathChars, MaxPathLen) : WellFormedPath(f) }
        \cup {PathDocs, PathOtherDocs, PathNestedTest, PathRootTest, PathSrcA, PathSrcAB}

MatchesPattern ==
    /\ ~m_done
    /\ m_result' = _matches_pattern(m_pattern, m_path)
    /\ m_done' = TRUE
    /\ UNCHANGED <<m_pattern, m_path, groupVars, trainVars, parseVars, prepVars, listing>>

InitPattern ==
    /\ m_pattern \in Patterns /\ m_path \in Paths
    /\ m_done = FALSE /\ m_result = FALSE
    /\ GroupIdle /\ TrainIdle /\ ParseIdle /\ PrepIdle /\ listing = NumPRs

NextPattern == MatchesPattern

SpecPattern == InitPattern /\ [][NextPattern]_vars

(***************************************************************************)
(* match_files_to_groups on its own: the rule lists and file lists it is   *)
(* applied to                                                              *)
(***************************************************************************)
MaxRules == 2
MaxFiles == 2

PatStar == <<"*">>
PatX == <<"/", "x", "/">>
PatY == <<"y">>
FileXY == <<"x", "/", "y", ".", "t", "x", "t">>
FileY == <<"y">>
FileMY == <<"m", "/", "y">>

RulePatterns == {PatStar, PatX, PatY}
DevA_B == <<"a", "_", "b">>
OwnerLists ==
    { <<DevA>>, <<DevB>>, <<DevA, DevB>>, <<DevB, DevA_B>>, <<DevA, DevA>> }
GroupFilePool == {FileXY, FileY, FileMY}

\* The CODEOWNERS line of a pattern and its owners, as tokens.
CodeownersLine(pattern, owners) ==
    <<pattern>> \o [k \in 1..Len(owners) |-> <<"@">> \o owners[k]]

\* The rules parse_codeowners yields for a file of such lines.
MakeRules(lines) ==
    parse_codeowners([i \in 1..Len(lines) |-> CodeownersLine(lines[i][1], lines[i][2])])

RuleLists == { MakeRules(l) : l \in SeqsUpTo(RulePatterns \X OwnerLists, MaxRules) }
FileLists == SeqsUpTo(GroupFilePool, MaxFiles)

MatchFilesToGroups ==
    /\ ~g_done
    /\ g_groups' = match_files_to_groups(g_files, g_rules)
    /\ g_done' = TRUE
    /\ UNCHANGED <<g_rules, g_files, matchVars, trainVars, parseVars, prepVars, listing>>

InitGroups ==
    /\ g_rules \in RuleLists /\ g_files \in FileLists
    /\ g_done = FALSE /\ g_groups = <<>>
    /\ MatchIdle /\ TrainIdle /\ ParseIdle /\ PrepIdle /\ listing = NumPRs

NextGroups == MatchFilesToGroups

SpecGroups == InitGroups /\ [][NextGroups]_vars

(***************************************************************************)
(* prepare_group_training_data and prepare_team_training_data on histories *)
(* of pull requests under a rule '/x/' with the owners of PrepOwners and a *)
(* rule '/s/ @d': two runs of up to MaxRepeat pull requests with the same  *)
(* files and approvers.                                                    *)
(***************************************************************************)
MaxRepeat == 10
PrepOwners ==
    { <<DevA, DevB>>, <<DevA, DevA>>, <<DevC, TeamOT>>, <<TeamOT>>, <<DevB, TeamOT, DevA>> }
PrepApprovers ==
    { <<>>, <<DevA>>, <<DevB, DevA>>, <<DevD>>, <<DevA, DevD, DevA>>, <<TeamOT, DevA>> }
PrepBlocks ==
    [count : {0, 1, MaxRepeat}, files : { <<FileX>>, <<FileS>> }, approvers : PrepApprovers]
PrepInputs == [owners : PrepOwners, blocks : [1..2 -> PrepBlocks]]

PrepRules(input) ==
    << [pattern |-> <<"/", "x", "/">>, owners |-> input.owners, rule_index |-> 0],
       [pattern |-> <<"/", "s", "/">>, owners |-> <<DevD>>, rule_index |-> 1] >>

\* The records collected from the history: those of the first run of pull
\* requests, then those of the second.
PrepRawData(input) ==
    LET block(n) == IF n <= input.blocks[1].count THEN input.blocks[1]
                    ELSE input.blocks[2]
        total == input.blocks[1].count + input.blocks[2].count
    IN  [n \in 1..total |->
            extract_codeowners_features(
                [number |-> n, merged |-> TRUE, files |-> block(n).files,
                 approvers |-> block(n).approvers, author |-> DevE,
                 created_at |-> 0],
                PrepRules(input))]

\* Lines 834-837 and 889-890: train prepares the datasets of the groups, then
\* those of the teams, which stores the statistics of the teams kept.
PrepareTrainingData ==
    /\ ~d_done
    /\ LET raw_data == PrepRawData(d_input)
           team_datasets == prepare_team_training_data(raw_data)
       IN  d_prepared' =
             [group_samples |-> [g \in get_all_group_ids(raw_data) |->
                                   GroupSamples(raw_data, 1, g)],
              group_datasets |-> prepare_group_training_data(raw_data),
              team_members |-> [t \in all_teams_of(raw_data) |->
                                  team_members_of(t, raw_data)],
              team_datasets |-> team_datasets,
              team_member_stats |-> [t \in DOMAIN team_datasets |->
                                       team_stats_of(t, raw_data)]]
    /\ d_done' = TRUE
    /\ UNCHANGED <<d_input, matchVars, groupVars, trainVars, parseVars, listing>>

InitPrepare ==
    /\ d_input \in PrepInputs
    /\ d_done = FALSE /\ d_prepared = <<>>
    /\ MatchIdle /\ GroupIdle /\ TrainIdle /\ ParseIdle /\ listing = NumPRs

NextPrepare == PrepareTrainingData

SpecPrepare == InitPrepare /\ [][NextPrepare]_vars

(***************************************************************************)
(* parse_codeowners on every text of up to MaxContentLen characters of     *)
(* ParseChars, and on the texts of ContentExamples.                        *)
(***************************************************************************)
MaxContentLen == 6
ParseChars == {"p", "@", "#", " ", "\n"}

\* "# c" / "p @a @@b" / "" / " q" / "r\t@o/t  " with a blank line before and
\* after.
ContentExamples ==
    { <<"\n", "#", " ", "c", "\n", "p", " ", "@", "a", " ", "@", "@", "b", "\n",
        "\n", " ", "q", "\n", "r", "\t", "@", "o", "/", "t", " ", " ", "\n">>,
      <<"p", " ", "a", "\n", "#", "p", " ", "b", "\n", "p", " ", "#", "\n", "@", " ", "@">> }

Contents == SeqsUpTo(ParseChars, MaxContentLen) \cup ContentExamples

ParseCodeowners ==
    /\ ~p_done
    /\ p_rules' = parse_codeowners_content(p_content)
    /\ p_done' = TRUE
    /\ UNCHANGED <<p_content, matchVars, groupVars, trainVars, prepVars, listing>>

InitParse ==
    /\ p_content \in Contents
    /\ p_done = FALSE /\ p_rules = <<>>
    /\ MatchIdle /\ GroupIdle /\ TrainIdle /\ PrepIdle /\ listing = NumPRs

NextParse == ParseCodeowners

SpecParse == InitParse /\ [][NextParse]_vars

(***************************************************************************)
(* Properties of match_files_to_groups (SpecGroups)                        *)
(***************************************************************************)

\* The rules of g_rules that match the file, by position.
MatchingRules(file_path) ==
    { i \in 1..Len(g_rules) : _matches_pattern(g_rules[i].pattern, file_path) }

\* The position of the last declared rule that matches the file, 0 when none
\* does.
Winner(file_path) ==
    IF MatchingRules(file_path) = {} THEN 0
    ELSE CHOOSE i \in MatchingRules(file_path) :
            \A j \in MatchingRules(file_path) : j <= i

WinnerGroup(file_path) == group_id_of(g_rules[Winner(file_path)].owners)

\* C1: when several rules match a file, the owners of the last declared
\* matching rule decide its group; every matched file is listed under that
\* group and no other, in input order, and an unmatched file under none.
C1_LastMatchWins ==
    g_done =>
      /\ DOMAIN g_groups =
           { WinnerGroup(g_files[k]) :
               k \in { n \in 1..Len(g_files) : Winner(g_files[n]) # 0 } }
      /\ \A gid \in DOMAIN g_groups :
           g_groups[gid] =
             SelectSeq(g_files, LAMBDA f : Winner(f) # 0 /\ WinnerGroup(f) = gid)

\* C1 witness: with the rules ('*', a) and ('/x/', b), x/y.txt (matched by
\* both) is resolved to b and y (matched by the first only) to a.
C1_Witness ==
    /\ g_done
    /\ g_rules = MakeRules(<< <<PatStar, <<DevA>>>>, <<PatX, <<DevB>>>> >>)
    /\ g_files = <<FileXY, FileY>>
    /\ MatchingRules(FileXY) = {1, 2}
    /\ g_groups = (DevB :> <<FileXY>>) @@ (DevA :> <<FileY>>)

\* C10: the group of a file depends only on the set of owners of its winning
\* rule: two files whose winning rules list the same owners, in any order and
\* with any repetition, are listed under the same group.
C10_GroupIdIsOwnerSet ==
    g_done =>
      \A i, j \in 1..Len(g_files) :
        ( /\ Winner(g_files[i]) # 0 /\ Winner(g_files[j]) # 0
          /\ Range(g_rules[Winner(g_files[i])].owners)
               = Range(g_rules[Winner(g_files[j])].owners) )
        => \E gid \in DOMAIN g_groups :
              /\ g_files[i] \in Range(g_groups[gid])
              /\ g_files[j] \in Range(g_groups[gid])

(***************************************************************************)
(* Properties of _matches_pattern (SpecPattern)                            *)
(***************************************************************************)

\* The positions of the path at which a segment starts.
SegmentStarts(path) ==
    {1} \cup { k + 1 : k \in { n \in 1..Len(path) : path[n] = "/" } }

HasDoubleStar(pattern) ==
    \E i \in 1..(Len(pattern) - 1) : pattern[i] = "*" /\ pattern[i + 1] = "*"

\* The translated pattern without the anchor put in front of it.
UnanchoredRegex(pattern) ==
    EndRegex(pattern, IF StartsWithSlash(pattern) THEN Tail(RegexBody(pattern))
                      ELSE RegexBody(pattern))

\* The pattern matches the path from position s on.
MatchesFrom(pattern, path, s) ==
    re_match(UnanchoredRegex(pattern), SubSeq(path, s, Len(path)))

\* C7: a pattern with a leading '/' matches only from the root of the path; a
\* pattern without one matches whenever it matches from the start of some
\* segment of the path ('docs/' matches other/docs/readme.md).
C7_Anchoring ==
    m_done =>
      /\ StartsWithSlash(m_pattern) =>
           (m_result => MatchesFrom(m_pattern, m_path, 1))
      /\ ~StartsWithSlash(m_pattern) =>
           (m_result <=> \E s \in SegmentStarts(m_path) :
                            MatchesFrom(m_pattern, m_path, s))

\* C8: a pattern '**/q' matches every path of which q matches the part from
\* the start of some segment on, the first segment included (no directory in
\* front): '**/test_*.py' matches a/b/test_x.py and test_x.py.
C8_DoubleStarAnyDepth ==
    ( /\ m_done
      /\ Len(m_pattern) > 3
      /\ SubSeq(m_pattern, 1, 3) = <<"*", "*", "/">>
      /\ \E s \in SegmentStarts(m_path) :
            MatchesFrom(SubSeq(m_pattern, 4, Len(m_pattern)), m_path, s) )
    => m_result

\* C9: a single '*' stays within one path segment: a root pattern whose only
\* '*' is its last character matches a path only as a whole, the '*' taking
\* characters other than '/'; so '/src/*' matches src/a.py and not src/a/b.py.
C9_SingleStarOneSegment ==
    m_done =>
      /\ (m_pattern = PatSrcStar /\ m_path = PathSrcA) => m_result
      /\ ( /\ StartsWithSlash(m_pattern)
           /\ m_pattern[Len(m_pattern)] = "*"
           /\ Cardinality({ i \in 1..Len(m_pattern) : m_pattern[i] = "*" }) = 1
           /\ m_result )
         => ReMatchFrom(Tail(RegexBody(m_pattern)), 1, m_path, 1, TRUE)

(***************************************************************************)
(* Properties of training, persistence and prediction (Spec)               *)
(***************************************************************************)

\* The processed ids the ledger file holds.
LedgerIds == IF ledgerFile.exists THEN ledgerFile.processed_prs ELSE {}

\* C2: a call of train that follows a call which ran without failure and
\* wrote the ledger, with the same pr_limit, the same rules and over the same
\* pull request history, and itself meets no failure, collects nothing and returns the
\* 'No new PRs found - training skipped' summary with total_samples 0.
C2_SecondRunSkipped ==
    ( /\ pc = "returned"
      /\ prev.wrote /\ prev.clean /\ prev.pr_limit = pr_limit
      /\ prev.rules = predictor.codeowners_patterns
      /\ ~fetch_failed /\ ~read_failed )
    => /\ summary.kind = "skipped"
       /\ summary.message = "No new PRs found - training skipped"
       /\ summary.total_samples = 0
       /\ training_data = <<>>

\* What is readable from the model file old is readable with the same value
\* from the model file new.
StorePreserved(old, new) ==
    old.exists =>
      /\ new.exists
      /\ \A g \in DOMAIN old.group_models :
            g \in DOMAIN new.group_models /\ new.group_models[g] = old.group_models[g]
      /\ \A g \in DOMAIN old.group_developer_stats :
            /\ g \in DOMAIN new.group_developer_stats
            /\ new.group_developer_stats[g] = old.group_developer_stats[g]
      /\ \A tm \in DOMAIN old.team_models :
            tm \in DOMAIN new.team_models /\ new.team_models[tm] = old.team_models[tm]
      /\ \A tm \in DOMAIN old.team_member_stats :
            /\ tm \in DOMAIN new.team_member_stats
            /\ new.team_member_stats[tm] = old.team_member_stats[tm]
      /\ new.codeowners_patterns = old.codeowners_patterns
      /\ new.is_trained = old.is_trained

\* C3: when the entry point's call of train found no new pull request, the
\* step that ends the run (main's save_model) leaves every model, statistics
\* snapshot, the rule list and the trained flag of the model file as they were.
C3_NoopRunKeepsStore ==
    [][ ( /\ pc = "returned" /\ entry = "main" /\ summary.kind = "skipped"
          /\ pc' = "idle" /\ last_op' = "SaveModel" )
        => StorePreserved(modelFile, modelFile') ]_vars

\* C4: after a crash in a run that had collected new pull requests, the ledger
\* holds that run's ids exactly when the model file holds that run's models.
C4_AtomicCommit ==
    ( /\ last_op = "Crash"
      /\ summary.kind = "crashed"
      /\ summary.new_prs # {} )
    => ( ( /\ ledgerFile.exists
           /\ ledgerFile.last_training_date = summary.stamp
           /\ summary.new_prs \subseteq ledgerFile.processed_prs )
         <=> ( modelFile.exists /\ modelFile.training_date = summary.stamp ) )

\* C5: no step other than the explicit deletion of the ledger file removes an
\* id from the processed ids the file holds.
C5_LedgerOnlyGrows ==
    [][ last_op' # "DeleteLedger" => LedgerIds \subseteq LedgerIds' ]_vars

\* C6: predict_approvers called on a predictor that has no group model and no
\* team model returns the not-trained error.
C6_NotTrainedError ==
    ( /\ last_op = "Predict"
      /\ DOMAIN predictor.group_models = {}
      /\ DOMAIN predictor.team_models = {} )
    => pr_result.kind = "NotTrained"

(***************************************************************************)
(* Properties of predict_approvers (Spec)                                  *)
(***************************************************************************)

RECURSIVE SumFn(_)
SumFn(f) ==
    IF DOMAIN f = {} THEN 0
    ELSE LET x == CHOOSE y \in DOMAIN f : TRUE
         IN  f[x] + SumFn([y \in DOMAIN f \ {x} |-> f[y]])

\* The groups the files of the last call resolve to, with their files.
Resolved == match_files_to_groups(pr_call.files, predictor.codeowners_patterns)

\* The resolved groups that have a trained group classifier.
Classified == DOMAIN Resolved \cap DOMAIN predictor.group_models

\* The positions of group g's owner list at which developer stands as an
\* individual owner.
IndividualAt(g, developer) ==
    { o \in 1..Len(split(g, "_")) :
        split(g, "_")[o] = developer /\ ~IsTeam(developer) }

\* The positions of group g's owner list that hold a team with a trained team
\* classifier of which developer is a discovered member.
TeamAt(g, developer) ==
    { o \in 1..Len(split(g, "_")) :
        LET owner == split(g, "_")[o] IN
        /\ IsTeam(owner)
        /\ owner \in DOMAIN predictor.team_models
        /\ owner \in DOMAIN predictor.team_member_stats
        /\ developer \in DOMAIN predictor.team_member_stats[owner] }

\* What the classified group g adds to the score of developer: classifier
\* probability times the number of files of g (over ProbScale * len(files)).
Contribution(g, developer) ==
    LET n == Len(Resolved[g]) IN
    SumFn([o \in IndividualAt(g, developer) |->
             n * group_predict_proba(
                   predictor.group_models[g],
                   engineer_group_features_for_prediction(
                       predictor, pr_call.files, g, Resolved[g], developer,
                       pr_call.now))])
    + SumFn([o \in TeamAt(g, developer) |->
               n * team_predict_proba(
                     predictor.team_models[split(g, "_")[o]],
                     engineer_team_features_for_prediction(
                         predictor, pr_call.files, split(g, "_")[o], developer))])

AccumulatedScore(developer) ==
    SumFn([g \in Classified |-> Contribution(g, developer)])

\* The developers some classified group scores.
Candidates ==
    UNION { { d \in Range(split(g, "_")) : ~IsTeam(d) }
              \cup UNION { IF IsTeam(o) /\ o \in DOMAIN predictor.team_models
                              /\ o \in DOMAIN predictor.team_member_stats
                           THEN DOMAIN predictor.team_member_stats[o] ELSE {}
                           : o \in Range(split(g, "_")) }
            : g \in Classified }

PredictedList == last_op = "Predict" /\ pr_result.kind = "list"

Returned == { pr_result.predictions[k].approver : k \in 1..Len(pr_result.predictions) }

\* C11: the result has at most top_k entries (all candidates when there are
\* fewer), in non-increasing order of score, and no candidate left out has a
\* higher accumulated score than a returned one.
C11_TopKByScore ==
    PredictedList =>
      LET out == pr_result.predictions IN
      /\ Len(out) <= pr_call.top_k
      /\ Len(out) = pr_call.top_k \/ Returned = Candidates
      /\ Cardinality(Returned) = Len(out)
      /\ \A k \in 1..(Len(out) - 1) :
            out[k].probability.num >= out[k + 1].probability.num
      /\ \A c \in Candidates \ Returned : \A k \in 1..Len(out) :
            AccumulatedScore(c) <= out[k].probability.num

\* C11 witness: a call with top_k 1 that leaves out candidates, one of them
\* with a lower score than the one returned.
C11_Witness ==
    /\ PredictedList
    /\ pr_call.top_k = 1
    /\ Len(pr_result.predictions) = 1
    /\ Cardinality(Candidates) > 3
    /\ \E c \in Candidates \ Returned :
          AccumulatedScore(c) < pr_result.predictions[1].probability.num

\* C13: a trained predictor asked about files none of which matches a rule
\* (an empty file list and an empty rule list included) returns the empty list.
C13_NoMatchIsEmptyList ==
    ( /\ last_op = "Predict"
      /\ predictor.is_trained
      /\ \A k \in 1..Len(pr_call.files) :
            \A r \in 1..Len(predictor.codeowners_patterns) :
               ~_matches_pattern(predictor.codeowners_patterns[r].pattern,
                                 pr_call.files[k]) )
    => pr_result = [kind |-> "list", predictions |-> <<>>]

\* C14: the score of every returned candidate is the sum of what the resolved
\* groups with a trained group classifier contribute, and every returned
\* candidate is scored by at least one of them; a resolved group without a
\* classifier adds nothing, neither for its individual owners nor for the
\* members of its teams.
C14_UnclassifiedGroupsSkipped ==
    PredictedList =>
      \A k \in 1..Len(pr_result.predictions) :
        LET e == pr_result.predictions[k] IN
        /\ e.probability.num = AccumulatedScore(e.approver)
        /\ \E g \in Classified :
              IndividualAt(g, e.approver) \cup TeamAt(g, e.approver) # {}

\* C14 witness: a request that resolves to a group with a classifier and to one
\* without, whose team owner has a team classifier with members, and gets a
\* non-empty answer.
C14_Witness ==
    /\ PredictedList
    /\ pr_result.predictions # <<>>
    /\ \E g \in DOMAIN Resolved \ Classified :
          \E o \in Range(split(g, "_")) :
             /\ IsTeam(o) /\ o \in DOMAIN predictor.team_models
             /\ o \in DOMAIN predictor.team_member_stats
             /\ DOMAIN predictor.team_member_stats[o] \ Returned # {}

\* C15: the reasoning of every returned candidate names the group model exactly
\* when a group classifier scored the candidate as an individual owner, and the
\* team model exactly when a team classifier scored the candidate as a member.
C15_ReasoningNamesContributors ==
    PredictedList =>
      \A k \in 1..Len(pr_result.predictions) :
        LET e == pr_result.predictions[k] IN
        /\ "group" \in Range(e.reasoning)
             <=> \E g \in Classified : IndividualAt(g, e.approver) # {}
        /\ "team" \in Range(e.reasoning)
             <=> \E g \in Classified : TeamAt(g, e.approver) # {}

\* The model file holds what save_model writes for the predictor of the process.
SavedFromPredictor ==
    /\ predictor.alive /\ predictor.is_trained
    /\ modelFile = model_data_of(predictor)

\* C12 as stated: a predictor loaded from the saved model answers the same
\* request with the same list as the predictor that was saved, whenever the two
\* calls are made.
C12_RoundTripAnyTime ==
    (last_op = "PredictLoaded" /\ SavedFromPredictor) => pr_loaded = pr_result

\* C12 amended: the two answers are the same when the two calls are made at the
\* same reading of the clock.
C12_RoundTripSameClock ==
    ( /\ last_op = "PredictLoaded" /\ SavedFromPredictor
      /\ pr_call.now_loaded = pr_call.now )
    => pr_loaded = pr_result

\* C12 witness: the saved and the loaded predictor both return a ranked list of
\* several candidates at the same reading of the clock.
C12_Witness ==
    /\ last_op = "PredictLoaded" /\ SavedFromPredictor
    /\ pr_call.now_loaded = pr_call.now
    /\ pr_loaded.kind = "list" /\ Len(pr_loaded.predictions) >= 3
    /\ pr_result.kind = "list"

(***************************************************************************)
(* Failures during a run of train (Spec)                                   *)
(***************************************************************************)
\* train has returned a summary to its caller, as after a run without failure.
ReturnedNormally ==
    pc = "returned" /\ summary.kind \in {"trained", "skipped"}

\* C16: when the request for a page of pull requests fails, the caller of
\* train gets an error: train does not return a summary.
C16_FetchFailureSurfaced ==
    fetch_failed => ~ReturnedNormally

\* The ledger was to be written by this run and the write failed.
LedgerWriteFailed ==
    pc = "returned" /\ training_data # <<>> /\ ~log_written

\* C17: a failure to read or to write the ledger is fatal: the run does not
\* return a summary.
C17_LedgerFailureFatal ==
    (read_failed \/ LedgerWriteFailed) => ~ReturnedNormally

(***************************************************************************)
(* parse_codeowners (SpecParse)                                            *)
(***************************************************************************)
\* The text without the whitespace at its two ends.
Trimmed(s) ==
    LET inked == { i \in 1..Len(s) : s[i] \notin Whitespace }
    IN  IF inked = {} THEN <<>>
        ELSE SubSeq(s, CHOOSE a \in inked : \A i \in inked : a <= i,
                       CHOOSE b \in inked : \A i \in inked : i <= b)

ParsedText == Trimmed(p_content)
LineBreaks == { i \in 1..Len(ParsedText) : ParsedText[i] = "\n" }
NumLines == Cardinality(LineBreaks) + 1

\* Line n of the text, counted from 0: what stands between the n-th line break
\* and the next one.
LineAt(n) ==
    LET edges == {0} \cup LineBreaks \cup {Len(ParsedText) + 1}
        from == CHOOSE a \in edges : Cardinality({ x \in edges : x < a }) = n
        to == CHOOSE b \in edges : Cardinality({ x \in edges : x < b }) = n + 1
    IN  SubSeq(ParsedText, from + 1, to - 1)

\* The tokens of a line, as intervals: the maximal runs without whitespace.
Words(line) ==
    { w \in (1..Len(line)) \X (1..Len(line)) :
        /\ w[1] <= w[2]
        /\ \A i \in w[1]..w[2] : line[i] \notin Whitespace
        /\ w[1] = 1 \/ line[w[1] - 1] \in Whitespace
        /\ w[2] = Len(line) \/ line[w[2] + 1] \in Whitespace }

\* The k-th token of a line.
WordAt(line, k) ==
    LET w == CHOOSE v \in Words(line) :
                 Cardinality({ u \in Words(line) : u[1] < v[1] }) = k - 1
    IN  SubSeq(line, w[1], w[2])

\* A line that declares a rule: not blank, not a comment, two tokens or more.
IsRuleLine(line) ==
    /\ Cardinality(Words(line)) >= 2
    /\ Head(WordAt(line, 1)) # "#"

\* An owner token without the '@' characters it starts with.
WithoutAt(token) ==
    LET n == CHOOSE m \in 0..Len(token) :
                 /\ \A i \in 1..m : token[i] = "@"
                 /\ m = Len(token) \/ token[m + 1] # "@"
    IN  SubSeq(token, n + 1, Len(token))

\* C18: parse_codeowners returns one rule for every line that is not blank, not
\* a comment and has at least two tokens, in the order of the file with a
\* strictly increasing rule_index; the pattern is the first token and the
\* owners are the other tokens in order, without their leading '@'.
C18_OneRulePerLine ==
    p_done =>
      LET rule_lines == { n \in 0..(NumLines - 1) : IsRuleLine(LineAt(n)) } IN
      /\ Len(p_rules) = Cardinality(rule_lines)
      /\ \A k \in 1..(Len(p_rules) - 1) :
            p_rules[k].rule_index < p_rules[k + 1].rule_index
      /\ \A k \in 1..Len(p_rules) :
            /\ p_rules[k].rule_index \in rule_lines
            /\ LET line == LineAt(p_rules[k].rule_index) IN
               /\ p_rules[k].pattern = WordAt(line, 1)
               /\ p_rules[k].owners =
                    [j \in 1..(Cardinality(Words(line)) - 1) |->
                        WithoutAt(WordAt(line, j + 1))]

\* C18 witness: a text with a comment, a blank line and a line of one token
\* between two rules, the first with two owners written with '@'.
C18_Witness ==
    /\ p_done
    /\ Len(p_rules) = 2
    /\ p_rules[1].rule_index = 1 /\ p_rules[2].rule_index = 4
    /\ p_rules[1].owners = << <<"a">>, <<"b">> >>
    /\ \E n \in 0..(NumLines - 1) : LineAt(n) # <<>> /\ Head(LineAt(n)) = "#"
    /\ \E n \in 0..(NumLines - 1) : LineAt(n) = <<>>
    /\ \E n \in 0..(NumLines - 1) : Cardinality(Words(LineAt(n))) = 1

(***************************************************************************)
(* The thresholds of training (Spec)                                       *)
(***************************************************************************)
\* A run has fitted what its new pull requests allow and returned.
RunTrained == pc = "returned" /\ training_data # <<>>

Touching(group_id) ==
    { i \in 1..Len(training_data) : group_id \in DOMAIN training_data[i].file_groups }

\* The positive samples of a group: for every pull request that touches it,
\* the owners who approved.  The negative ones: the owners who did not.
GroupPositives(group_id) ==
    SumFn([i \in Touching(group_id) |->
             Cardinality(Range(split(group_id, "_"))
                           \cap Range(training_data[i].approvers))])
GroupNegatives(group_id) ==
    LET owners == split(group_id, "_") IN
    SumFn([i \in Touching(group_id) |->
             Cardinality({ k \in 1..Len(owners) :
                             owners[k] \notin Range(training_data[i].approvers) })])

Involving(team_name) ==
    { i \in 1..Len(training_data) : team_involved(training_data[i], team_name) }

\* The samples of a team: one per member for every pull request it is involved
\* in, positive when the member approved.
TeamPositives(team_name) ==
    SumFn([i \in Involving(team_name) |->
             Cardinality(team_members_of(team_name, training_data)
                           \cap Range(training_data[i].approvers))])
TeamNegatives(team_name) ==
    SumFn([i \in Involving(team_name) |->
             Cardinality(team_members_of(team_name, training_data)
                           \ Range(training_data[i].approvers))])

BelowThreshold(positives, negatives) ==
    \/ positives + negatives < MinSamples
    \/ positives < MinClassSamples
    \/ negatives < MinClassSamples

FittedNow(models, key) ==
    key \in DOMAIN models /\ models[key].fitted_at = runs

\* C19: a group or a team whose dataset has fewer than 20 samples, fewer than 3
\* positive ones or fewer than 3 negative ones gets no classifier in this run,
\* and the run goes on to return its training summary.
C19_BelowThresholdNotTrained ==
    RunTrained =>
      /\ summary.kind = "trained" /\ predictor.is_trained
      /\ \A g \in get_all_group_ids(training_data) :
            BelowThreshold(GroupPositives(g), GroupNegatives(g))
              => ~FittedNow(predictor.group_models, g)
      /\ \A t \in all_teams_of(training_data) :
            BelowThreshold(TeamPositives(t), TeamNegatives(t))
              => ~FittedNow(predictor.team_models, t)

\* C19 witness: a run that fits the classifiers of two groups and of a team,
\* and leaves out a group of 20 samples none of which is positive.
C19_Witness ==
    /\ RunTrained
    /\ summary.kind = "trained"
    /\ \E g, h \in get_all_group_ids(training_data) :
          /\ g # h
          /\ FittedNow(predictor.group_models, g)
          /\ FittedNow(predictor.group_models, h)
    /\ \E t \in all_teams_of(training_data) : FittedNow(predictor.team_models, t)
    /\ \E g \in get_all_group_ids(training_data) :
          /\ GroupPositives(g) + GroupNegatives(g) >= MinSamples
          /\ GroupPositives(g) < MinClassSamples
          /\ g \notin DOMAIN predictor.group_models

(***************************************************************************)
(* A run without new pull requests (Spec)                                  *)
(***************************************************************************)
\* train has returned from a run that collected nothing.
NoopRun == pc = "returned" /\ training_data = <<>>

\* C20: a run that collects no new record returns the no-op summary (message
\* "No new PRs found - training skipped", total_samples 0) and leaves the
\* models, the scalers kept with them, the statistics, is_trained and the
\* ledger file as they were when train was called.
C20_NoopChangesNothing ==
    NoopRun =>
      /\ summary.kind = "skipped"
      /\ summary.message = "No new PRs found - training skipped"
      /\ summary.total_samples = 0
      /\ FittedFields(predictor) = at_call.fields
      /\ ledgerFile = at_call.ledger

\* C20 witness: a no-op run on a predictor that holds classifiers, with a
\* ledger on disk.
C20_Witness ==
    /\ NoopRun
    /\ DOMAIN predictor.group_models # {}
    /\ predictor.is_trained
    /\ ledgerFile.exists

(***************************************************************************)
(* The ledger and the statistics against the history (Spec)                *)
(***************************************************************************)
\* The pull requests whose samples fitted a classifier the predictor holds.
Incorporated(p) ==
    UNION { p.group_models[g].fit_on : g \in DOMAIN p.group_models }
      \cup UNION { p.team_models[t].fit_on : t \in DOMAIN p.team_models }

\* C21: every id of the persisted ledger is the id of a pull request whose
\* samples fitted a group or team classifier of the trained state.
C21_LedgerWithinTrainedState ==
    (pc = "returned" /\ ~fetch_failed /\ ~read_failed)
      => LedgerIds \subseteq Incorporated(predictor)

\* The records of the pull requests of the ledger, as collected under the rules
\* of the predictor.
LedgerHistory ==
    LET listed == SelectSeq([n \in 1..listing |-> UpstreamPR(n)],
                            LAMBDA pr : pr.number \in LedgerIds)
    IN  [k \in 1..Len(listed) |->
            extract_codeowners_features(listed[k], predictor.codeowners_patterns)]

\* C22: the statistics stored for a group or team trained in a run are those
\* of the full history, the records of earlier runs and the new ones.
C22_StatsFromFullHistory ==
    (RunTrained /\ log_written /\ ~read_failed) =>
      /\ \A g \in DOMAIN predictor.group_models :
            FittedNow(predictor.group_models, g)
              => predictor.group_developer_stats[g] = group_stats_of(g, LedgerHistory)
      /\ \A t \in DOMAIN predictor.team_models :
            FittedNow(predictor.team_models, t)
              => predictor.team_member_stats[t] = team_stats_of(t, LedgerHistory)

(***************************************************************************)
(* Feature names at training and at inference (Spec)                       *)
(***************************************************************************)
\* The candidates of a classified group the request is scored for, and one
\* developer the group has no statistics of.
GroupCandidates(g) == { d \in Range(split(g, "_")) : ~IsTeam(d) } \cup {DevD}

\* The stored members of a team, and one developer who is not a member.
TeamCandidates(t) ==
    (IF t \in DOMAIN predictor.team_member_stats
     THEN DOMAIN predictor.team_member_stats[t] ELSE {}) \cup {DevE}

TrainedTeamsOf(g) ==
    { t \in Range(split(g, "_")) : IsTeam(t) /\ t \in DOMAIN predictor.team_models }

StatFeatures ==
    {"dev_group_approval_count", "dev_group_appearance_count",
     "dev_group_file_experience"}

\* C25: for every classified group and trained team of a request, the feature
\* dict built for prediction has the names recorded at training, in the same
\* order, for every candidate; for a candidate without stored statistics the
\* statistic features are 0.
C25_SameFeatureNames ==
    PredictedList =>
      \A g \in Classified :
        /\ \A d \in GroupCandidates(g) :
              LET features == engineer_group_features_for_prediction(
                                  predictor, pr_call.files, g, Resolved[g], d,
                                  pr_call.now)
              IN  /\ dict_keys(features) = predictor.group_features[g]
                  /\ d \notin DOMAIN predictor.group_developer_stats[g]
                       => \A name \in StatFeatures : dict_get(features, name) = 0
        /\ \A t \in TrainedTeamsOf(g) : \A m \in TeamCandidates(t) :
              LET features == engineer_team_features_for_prediction(
                                  predictor, pr_call.files, t, m)
              IN  /\ dict_keys(features) = predictor.team_features[t]
                  /\ m \notin DOMAIN predictor.team_member_stats[t]
                       => dict_get(features, "member_total_approvals") = 0

\* C25 witness: a request with a classified group that has a trained team
\* among its owners, a candidate of the group and a candidate of the team
\* having no stored statistics.
C25_Witness ==
    /\ PredictedList
    /\ \E g \in Classified :
          /\ TrainedTeamsOf(g) # {}
          /\ DevD \notin DOMAIN predictor.group_developer_stats[g]
          /\ \E t \in TrainedTeamsOf(g) : DevE \notin DOMAIN predictor.team_member_stats[t]
          /\ Len(predictor.group_features[g]) = 21

(***************************************************************************)
(* The samples of the groups and the members of the teams.                 *)
(***************************************************************************)
\* The owners declared by the rule that wins the files of a record of the
\* prepared history.
PrepDeclaredOwners(files) ==
    IF FileX \in Range(files) THEN Range(d_input.owners) ELSE {DevD}

SamplesOf(samples, pr_number, developer) ==
    { k \in 1..Len(samples) :
        samples[k].pr = pr_number /\ samples[k].developer = developer }

\* C23: for every record that touches a group, prepare_group_training_data
\* emits exactly one sample per declared owner of the group, labelled 1 when
\* the owner approved the record and 0 otherwise, and no sample for a
\* developer who is not a declared owner of the group.
C23_OneSamplePerOwner ==
    d_done =>
      LET raw_data == PrepRawData(d_input) IN
      \A g \in DOMAIN d_prepared.group_samples :
        \A j \in 1..Len(raw_data) :
          g \in DOMAIN raw_data[j].file_groups =>
            LET samples == d_prepared.group_samples[g]
                owners == PrepDeclaredOwners(raw_data[j].files)
                label(d) == IF d \in Range(raw_data[j].approvers) THEN 1 ELSE 0
            IN  /\ \A d \in owners :
                     /\ Cardinality(SamplesOf(samples, raw_data[j].pr_number, d)) = 1
                     /\ \A k \in SamplesOf(samples, raw_data[j].pr_number, d) :
                            samples[k].label = label(d)
                /\ \A k \in 1..Len(samples) :
                     samples[k].pr = raw_data[j].pr_number
                        => samples[k].developer \in owners

\* C24: the developer-history features of the training sample for (record r,
\* group g, developer d) count the records other than r only: the approval
\* count and the appearance count leave out r itself.
C24_LeaveOneOutHistory ==
    d_done =>
      LET raw_data == PrepRawData(d_input) IN
      \A g \in DOMAIN d_prepared.group_samples :
        \A k \in 1..Len(d_prepared.group_samples[g]) :
          LET sample == d_prepared.group_samples[g][k]
              features == group_sample_features(raw_data, g, sample)
              others == { j \in 1..Len(raw_data) :
                            /\ raw_data[j].pr_number # sample.pr
                            /\ g \in DOMAIN raw_data[j].file_groups }
              approved == { j \in others :
                              sample.developer \in Range(raw_data[j].approvers) }
          IN  /\ dict_get(features, "dev_group_appearance_count") = Cardinality(others)
              /\ dict_get(features, "dev_group_approval_count") = Cardinality(approved)
              /\ dict_get(features, "dev_group_approval_rate")
                    = Quotient(Cardinality(approved), Cardinality(others))

\* The individuals who approved a record of the prepared history whose
\* winning rule names the team among its owners.
PrepDiscovered(t) ==
    LET raw_data == PrepRawData(d_input) IN
    { d \in UNION { Range(raw_data[j].approvers) : j \in 1..Len(raw_data) } :
        /\ ~IsTeam(d)
        /\ \E j \in 1..Len(raw_data) :
             /\ t \in PrepDeclaredOwners(raw_data[j].files)
             /\ d \in Range(raw_data[j].approvers) }

\* C26: the members of a team are exactly the individual approvers of the
\* records whose resolved groups have the team as an owner, and a team with
\* fewer than 2 such members gets no dataset and no stored statistics, hence
\* no model.
C26_TeamMembersDiscovered ==
    d_done =>
      \A t \in DOMAIN d_prepared.team_members :
        /\ d_prepared.team_members[t] = PrepDiscovered(t)
        /\ Cardinality(PrepDiscovered(t)) < 2 =>
              /\ t \notin DOMAIN d_prepared.team_datasets
              /\ t \notin DOMAIN d_prepared.team_member_stats

\* A team with a single discovered member whose samples would have been
\* enough, the team itself being among the approvers.
C26_Witness ==
    /\ d_done
    /\ \E t \in DOMAIN d_prepared.team_members :
         /\ Cardinality(d_prepared.team_members[t]) = 1
         /\ EnoughSamples(TeamSamples(PrepRawData(d_input), 1, t,
                                      SeqOfSet(d_prepared.team_members[t])))
         /\ TeamOT \in Range(d_input.blocks[1].approvers)

(***************************************************************************)
(* The owners read back from a group identifier.                           *)
(***************************************************************************)
\* The owners of the rule that wins a file of the grouped request.
WinningOwners(file) ==
    Range(g_rules[LastMatchingRule(g_rules, 1, file, 0)].owners)

\* C29: for every group match_files_to_groups produces, splitting its
\* group_id on '_' yields exactly the owners of the winning rule of its
\* files, whatever the owner identifiers, those containing '_' included.
C29_SplitYieldsOwners ==
    g_done =>
      \A g \in DOMAIN g_groups :
        \A k \in 1..Len(g_groups[g]) :
          Range(split(g, "_")) = WinningOwners(g_groups[g][k])

(***************************************************************************)
(* The models of the store across an incremental run.                      *)
(***************************************************************************)
\* C27: when a run of the entry point (construct predictor, train,
\* save_model) or of a live predictor processed at least one new pull
\* request, every group and team that had a model in the model file before
\* the run has one in the model file the run writes.
C27_ModelsSurviveRun ==
    [][ ( /\ pc = "returned" /\ summary.kind = "trained"
          /\ pc' = "idle" /\ last_op' = "SaveModel"
          /\ modelFile.exists )
        => /\ DOMAIN modelFile.group_models \subseteq DOMAIN modelFile'.group_models
           /\ DOMAIN modelFile.team_models \subseteq DOMAIN modelFile'.team_models ]_vars

(***************************************************************************)
(* The range of the returned probabilities.                                *)
(***************************************************************************)
\* C30: every entry predict_approvers returns has a probability between 0
\* and 1, also for a candidate scored as an owner of a group and as a member
\* of a team that owns the same group.
C30_ProbabilityWithinUnit ==
    pr_result.kind = "list" =>
      \A k \in 1..Len(pr_result.predictions) :
        LET probability == pr_result.predictions[k].probability
        IN  0 <= probability.num /\ probability.num <= probability.den

(***************************************************************************)
(* Progress of repeated training runs (SpecLive).                          *)
(***************************************************************************)
\* The merged pull requests of the first MaxPage pages of the listing that
\* have a file matching a rule.
Learnable ==
    { n \in 1..listing :
        /\ n > listing - MaxPage * PerPage
        /\ UpstreamPR(n).merged
        /\ extract_codeowners_features(UpstreamPR(n),
                                       parse_codeowners(CodeownersContent)).ok }

\* C28: with the listing unchanged and no failure, when training runs are
\* repeated (again and again a run has just ended), eventually every merged
\* pull request of the first MaxPage pages that matches a rule is in the
\* ledger: neither pr_limit nor the stop after EarlyStopPages pages without
\* a new record leaves one out for ever.
C28_EveryChangeEventuallyLearned ==
    []<>(pc = "idle" /\ last_op \in {"SaveModel", "ReturnOnly"})
        => <>(Learnable \subseteq LedgerIds)

====
